---------------------------- MODULE Spec2Model ----------------------------
(***************************************************************************)
(* Pathing-graph construction and breadth-first search of                  *)
(* pathfinding-visualization (src/src/pathing.py, src/src/movement.py).    *)
(*                                                                         *)
(* Python values are modelled as follows.                                  *)
(*   - Optional[int]: an integer, with None the sentinel below; `if edge`  *)
(*     (truthiness) is Truthy(edge): neither None nor 0.                   *)
(*   - dict: a function; its keys are its DOMAIN.                          *)
(*   - OrderedDict: a record [order, at]: the keys in insertion order and  *)
(*     the function from key to value.                                     *)
(*   - list: a sequence (1-based here, 0-based in Python: list[i] is       *)
(*     seq[i + 1]).                                                        *)
(*   - a raised exception: the variable `raised` holds the name of the     *)
(*     function whose call raised; a search that raised has no result.     *)
(***************************************************************************)
EXTENDS Integers, Sequences, FiniteSets, TLC

VARIABLES
    pc,            \* position of the program
    settings,      \* Settings: [xdims, ydims]
    jdict,         \* parsed JSON map data: [tiles, walls]
    location_map,  \* LocationMap: [nid, tiles, walls_n, walls_w]
    pathmap,       \* PathMap: [nodes, xdims, ydims]
    mvtype,        \* __main__: the movement type of the current run
    src,           \* query: source node id
    tgt,           \* query: target node id
    curr,          \* BFS: current frontier (list, popped from the end)
    next,          \* BFS: next frontier
    seen,          \* breadth_first_search_depth: set of seen ids
    seen_p,        \* breadth_first_search: dict id -> predecessor
    depth,         \* breadth_first_search_depth: current depth
    path,          \* breadth_first_search: path under reconstruction
    to_node,       \* breadth_first_search: cursor of the reconstruction
    pops,          \* number of frontier pops of the running search
    bfs,           \* result of breadth_first_search_depth
    bfs_p,         \* result of breadth_first_search: [some, path]
    sp,            \* result of shortest_path
    raised,        \* the calls that raised an exception
    tid,           \* NeighborMap.__init__: loop variable
    inner,         \* NeighborMap.inner: dict tid -> Neighbors
    call,          \* a single call: the function called and its arguments
    ret            \* its outcome: [raised, value]

vars == << pc, settings, jdict, location_map, pathmap, mvtype, src, tgt, curr,
           next, seen, seen_p, depth, path, to_node, pops, bfs, bfs_p, sp,
           raised, tid, inner, call, ret >>

-----------------------------------------------------------------------------
(* Bounds of the model *)

\* grids of the search model have at most MaxTiles tiles (xdims * ydims)
MaxTiles == 5

\* at most MaxWalls coordinates of the JSON "walls" object carry a wall list
MaxWalls == 1

\* path reconstruction is cut off once the path is longer than any simple
\* path plus MaxExtra elements (the loop of the code has no bound)
MaxExtra == 2

\* NeighborMap is built for 1 <= xdims, ydims <= MaxDim
MaxDim == 4

-----------------------------------------------------------------------------
(* Python values *)

None == -1

Truthy(v) == v # None /\ v # 0

\* dict.get(k) on a dict of ids, None when absent
NoLocation == [nid |-> None, terrain |-> "EMPTY"]

Get(d, k) == IF k \in DOMAIN d THEN d[k] ELSE NoLocation

Put(d, k, v) == [c \in DOMAIN d \cup {k} |-> IF c = k THEN v ELSE d[c]]

EmptyDict == [c \in {} |-> NoLocation]

\* OrderedDict: assignment to a new key appends it, to an old key keeps its place
OPut(od, k, v) ==
    [order |-> IF k \in DOMAIN od.at THEN od.order ELSE Append(od.order, k),
     at |-> Put(od.at, k, v)]

EmptyODict == [order |-> << >>, at |-> EmptyDict]

(* Outcomes of calls *)

\* no call has been made
NoCall == [fn |-> "none"]

NoReturn == [raised |-> "", value |-> None]

\* the call returned v
Return(v) == [raised |-> "", value |-> v]

\* the call raised the exception e
Raise(e) == [raised |-> e, value |-> None]

-----------------------------------------------------------------------------
(* movement.py: Terrain *)

Terrain == {"EMPTY", "UNDERGROUND", "UNDERWATER", "DEEP", "SHALLOW", "FLAT",
            "LOW", "MEDIUM", "HIGH", "LOW_WALL_N", "LOW_WALL_W",
            "HIGH_WALL_N", "HIGH_WALL_W", "AIR"}

is_north_wall(t) == t \in {"LOW_WALL_N", "HIGH_WALL_N"}

is_west_wall(t) == t \in {"LOW_WALL_W", "HIGH_WALL_W"}

Terrain_to_string(t) ==
    CASE t = "EMPTY" -> "EMPTY"
      [] t = "UNDERGROUND" -> "UNDERGROUND"
      [] t = "UNDERWATER" -> "WATER"
      [] t = "DEEP" -> "DEEP"
      [] t = "SHALLOW" -> "SHALLOW"
      [] t = "FLAT" -> "FLAT"
      [] t = "LOW" -> "LOW"
      [] t = "MEDIUM" -> "MEDIUM"
      [] t = "HIGH" -> "HIGH"
      [] t = "LOW_WALL_N" -> "LOW_WALL_N"
      [] t = "LOW_WALL_W" -> "LOW_WALL_W"
      [] t = "HIGH_WALL_N" -> "HIGH_WALL_N"
      [] t = "HIGH_WALL_W" -> "HIGH_WALL_W"
      [] t = "AIR" -> "AIR"

\* the names Terrain.from_string knows
Terrain_names == {"empty", "underground", "underwater", "deep", "shallow", "flat",
                  "low", "medium", "high", "low_wall_n", "low_wall_w",
                  "high_wall_n", "high_wall_w", "air"}

\* the value "ValueError" stands for the raise at the end of the function
Terrain_from_string(s) ==
    CASE s = "empty" -> "EMPTY"
      [] s = "underground" -> "UNDERGROUND"
      [] s = "underwater" -> "UNDERWATER"
      [] s = "deep" -> "DEEP"
      [] s = "shallow" -> "SHALLOW"
      [] s = "flat" -> "FLAT"
      [] s = "low" -> "LOW"
      [] s = "medium" -> "MEDIUM"
      [] s = "high" -> "HIGH"
      [] s = "low_wall_n" -> "LOW_WALL_N"
      [] s = "low_wall_w" -> "LOW_WALL_W"
      [] s = "high_wall_n" -> "HIGH_WALL_N"
      [] s = "high_wall_w" -> "HIGH_WALL_W"
      [] s = "air" -> "AIR"
      [] OTHER -> "ValueError"

\* a conversion that falls back to EMPTY for an unknown symbol
Terrain_from_symbol_or_empty(s) ==
    CASE s = "D" -> "DEEP"
      [] s = "S" -> "SHALLOW"
      [] s = "F" -> "FLAT"
      [] s = "L" -> "LOW"
      [] s = "M" -> "MEDIUM"
      [] s = "H" -> "HIGH"
      [] s = "n" -> "LOW_WALL_N"
      [] s = "w" -> "LOW_WALL_W"
      [] s = "N" -> "HIGH_WALL_N"
      [] s = "W" -> "HIGH_WALL_W"
      [] OTHER -> "EMPTY"

Terrain_from_symbol(s) ==
    CASE s = "D" -> "DEEP"
      [] s = "S" -> "SHALLOW"
      [] s = "F" -> "FLAT"
      [] s = "L" -> "LOW"
      [] s = "M" -> "MEDIUM"
      [] s = "H" -> "HIGH"
      [] s = "n" -> "LOW_WALL_N"
      [] s = "w" -> "LOW_WALL_W"
      [] s = "N" -> "HIGH_WALL_N"
      [] s = "W" -> "HIGH_WALL_W"
      [] OTHER -> "ValueError"

\* Terrain is an IntEnum: the integer of each member
Terrain_value(t) ==
    CASE t = "EMPTY" -> 0
      [] t = "UNDERGROUND" -> 1
      [] t = "UNDERWATER" -> 2
      [] t = "DEEP" -> 3
      [] t = "SHALLOW" -> 4
      [] t = "FLAT" -> 5
      [] t = "LOW" -> 6
      [] t = "MEDIUM" -> 7
      [] t = "HIGH" -> 8
      [] t = "LOW_WALL_N" -> 9
      [] t = "LOW_WALL_W" -> 10
      [] t = "HIGH_WALL_N" -> 11
      [] t = "HIGH_WALL_W" -> 12
      [] t = "AIR" -> 13

\* An integer used as a bit mask (an IntFlag, or an operand of &) is the set
\* of the positions of its 1 bits: & is \cap, | is \cup and 0 is {}.
\* (n is below 2^31 here, so bit 31 is never set)
Bits(n) == {i \in 0..30 : (n \div (2 ^ i)) % 2 = 1}

\* TerrainFlags.ALL = 0b1111_1111_1111_1111_1111_1111_1111_1111
TerrainFlags_ALL == 0..31

TerrainFlags_EMPTY == {}

BitAnd(a, b) == a \cap b

-----------------------------------------------------------------------------
(* movement.py: MovementType *)

\* MovementType is an IntEnum: TERRESTRIAL = 0, SUBTERRANEAN = 1, AMPHIBIOUS = 2,
\* DEEP_AMPHIBIOUS = 3, AQUATIC = 4, AERIAL = 5
MovementType == 0..5

MovementType_to_string(m) ==
    CASE m = 0 -> "TERRESTRIAL"
      [] m = 1 -> "SUBTERRANEAN"
      [] m = 2 -> "AMPHIBIOUS"
      [] m = 3 -> "DEEP_AMPHIBIOUS"
      [] m = 4 -> "AQUATIC"
      [] m = 5 -> "AERIAL"

\* a conversion with the names of AQUATIC and AERIAL exchanged
MovementType_from_string_swapped(s) ==
    CASE s = "terrestrial" -> Return(0)
      [] s = "subterranean" -> Return(1)
      [] s = "amphibious" -> Return(2)
      [] s = "deep_amphibious" -> Return(3)
      [] s = "aquatic" -> Return(5)
      [] s = "aerial" -> Return(4)
      [] OTHER -> Raise("ValueError")

MovementType_from_string(s) ==
    CASE s = "terrestrial" -> Return(0)
      [] s = "subterranean" -> Return(1)
      [] s = "amphibious" -> Return(2)
      [] s = "deep_amphibious" -> Return(3)
      [] s = "aquatic" -> Return(4)
      [] s = "aerial" -> Return(5)
      [] OTHER -> Raise("ValueError")

\* str.lower() on the strings of the model: the upper-case and capitalised
\* names have the lower-case name as value, every other string is unchanged
str_lower(s) ==
    CASE s \in {"TERRESTRIAL", "Terrestrial"} -> "terrestrial"
      [] s = "SUBTERRANEAN" -> "subterranean"
      [] s = "AMPHIBIOUS" -> "amphibious"
      [] s \in {"DEEP_AMPHIBIOUS", "Deep_Amphibious"} -> "deep_amphibious"
      [] s = "AQUATIC" -> "aquatic"
      [] s \in {"AERIAL", "Aerial"} -> "aerial"
      [] s = "EMPTY" -> "empty"
      [] s = "UNDERGROUND" -> "underground"
      [] s = "UNDERWATER" -> "underwater"
      [] s = "WATER" -> "water"
      [] s = "DEEP" -> "deep"
      [] s = "SHALLOW" -> "shallow"
      [] s = "FLAT" -> "flat"
      [] s = "LOW" -> "low"
      [] s = "MEDIUM" -> "medium"
      [] s = "HIGH" -> "high"
      [] s = "LOW_WALL_N" -> "low_wall_n"
      [] s = "LOW_WALL_W" -> "low_wall_w"
      [] s = "HIGH_WALL_N" -> "high_wall_n"
      [] s = "HIGH_WALL_W" -> "high_wall_w"
      [] s = "AIR" -> "air"
      [] s = "SWAMP" -> "swamp"
      [] s = "WEEDS" -> "weeds"
      [] s = "REEF" -> "reef"
      [] s = "LOW_WALL" -> "low_wall"
      [] s = "HIGH_WALL" -> "high_wall"
      [] s = "ROUGH" -> "rough"
      [] s = "LOOSE" -> "loose"
      [] OTHER -> s

-----------------------------------------------------------------------------
(* helpers.py: Direction; movement.py: TerrainFlags, TargetContext *)

\* Direction is an Enum: N = 1, S = 2, E = 3, W = 4, NE = 5, NW = 6, SE = 7,
\* SW = 8, ABOVE = 9, BELOW = 10
Direction == 1..10

\* the value 0 stands for the raise of ValueError
Direction_from_string(s) ==
    CASE s = "N" -> 1
      [] s = "S" -> 2
      [] s = "E" -> 3
      [] s = "W" -> 4
      [] s = "NE" -> 5
      [] s = "NW" -> 6
      [] s = "SE" -> 7
      [] s = "SW" -> 8
      [] s = "above" -> 9
      [] s = "below" -> 10
      [] OTHER -> 0

\* TerrainFlags is an IntFlag: the integer of each member
TerrainFlags_value(f) ==
    CASE f = "EMPTY" -> 0
      [] f = "UNDERGROUND" -> 1
      [] f = "UNDERWATER" -> 2
      [] f = "DEEP" -> 4
      [] f = "SHALLOW" -> 8
      [] f = "FLAT" -> 16
      [] f = "LOW" -> 32
      [] f = "MEDIUM" -> 64
      [] f = "HIGH" -> 128
      [] f = "LOW_WALL_N" -> 256
      [] f = "LOW_WALL_W" -> 512
      [] f = "HIGH_WALL_N" -> 1024
      [] f = "HIGH_WALL_W" -> 2048
      [] f = "AIR" -> 4096

\* a conversion that takes the integer of the Terrain for the mask
TerrainFlags_from_terrain_value(t) == Bits(Terrain_value(t))

\* TerrainFlags.from_terrain(t): one case per member of Terrain
TerrainFlags_from_terrain(t) ==
    CASE t = "EMPTY" -> Bits(TerrainFlags_value("EMPTY"))
      [] t = "UNDERGROUND" -> Bits(TerrainFlags_value("UNDERGROUND"))
      [] t = "UNDERWATER" -> Bits(TerrainFlags_value("UNDERWATER"))
      [] t = "DEEP" -> Bits(TerrainFlags_value("DEEP"))
      [] t = "SHALLOW" -> Bits(TerrainFlags_value("SHALLOW"))
      [] t = "FLAT" -> Bits(TerrainFlags_value("FLAT"))
      [] t = "LOW" -> Bits(TerrainFlags_value("LOW"))
      [] t = "MEDIUM" -> Bits(TerrainFlags_value("MEDIUM"))
      [] t = "HIGH" -> Bits(TerrainFlags_value("HIGH"))
      [] t = "LOW_WALL_N" -> Bits(TerrainFlags_value("LOW_WALL_N"))
      [] t = "LOW_WALL_W" -> Bits(TerrainFlags_value("LOW_WALL_W"))
      [] t = "HIGH_WALL_N" -> Bits(TerrainFlags_value("HIGH_WALL_N"))
      [] t = "HIGH_WALL_W" -> Bits(TerrainFlags_value("HIGH_WALL_W"))
      [] t = "AIR" -> Bits(TerrainFlags_value("AIR"))

\* flags |= TerrainFlags.from_terrain(Terrain.from_string(s)) for s in terrain_strs
terrain_flags(terrain_strs) ==
    UNION {TerrainFlags_from_terrain(Terrain_from_string(terrain_strs[i])) :
              i \in 1..Len(terrain_strs)}

\* A JSON array is [kind |-> "list", items |-> a sequence]; a JSON object is
\* [kind |-> "dict", at |-> a function of its keys].

\* a direction or a terrain name of the dict raises ValueError
rule_raises(dir_dict) ==
    \E dir_str \in DOMAIN dir_dict :
        \/ Direction_from_string(dir_str) = 0
        \/ \E i \in 1..Len(dir_dict[dir_str]) :
              Terrain_from_string(dir_dict[dir_str][i]) = "ValueError"

\* for dir_str, terrain_strs in dir_dict.items(): flags[direction] = ...;
\* empty flags are replaced by `if_empty`
rule_flags(dir_dict, flags, if_empty) ==
    LET dirs == {Direction_from_string(dir_str) : dir_str \in DOMAIN dir_dict}
        of(d) == CHOOSE dir_str \in DOMAIN dir_dict : Direction_from_string(dir_str) = d
        mask(d) == IF terrain_flags(dir_dict[of(d)]) = TerrainFlags_EMPTY
                   THEN if_empty ELSE terrain_flags(dir_dict[of(d)])
    IN [d \in DOMAIN flags \cup dirs |-> IF d \in dirs THEN mask(d) ELSE flags[d]]

RECURSIVE rules_flags(_, _, _)
\* for dir_dict in data: ...
rules_flags(items, flags, if_empty) ==
    IF items = << >> THEN Return(flags)
    ELSE IF rule_raises(Head(items)) THEN Raise("ValueError")
    ELSE rules_flags(Tail(items), rule_flags(Head(items), flags, if_empty), if_empty)

\* the two loops of from_dict over the value of "allowing" or "blocking":
\* iterating a JSON object yields its keys, and str has no items()
parse_rules(data, if_empty) ==
    IF data.kind = "dict"
    THEN IF DOMAIN data.at = {} THEN Return(<< >>) ELSE Raise("AttributeError")
    ELSE rules_flags(data.items, << >>, if_empty)

\* dir_dict is [keys, cost, allowing, blocking]: the keys present and their values
TargetContext_from_dict(dir_dict) ==
    IF {"cost", "allowing", "blocking"} \ dir_dict.keys # {} THEN Raise("KeyError")
    ELSE LET allowing == parse_rules(dir_dict.allowing, TerrainFlags_ALL)
             blocking == parse_rules(dir_dict.blocking, TerrainFlags_EMPTY)
         IN IF allowing.raised # "" THEN allowing
            ELSE IF blocking.raised # "" THEN blocking
            ELSE Return([cost |-> dir_dict.cost, allowing |-> allowing.value,
                         blocking |-> blocking.value])

-----------------------------------------------------------------------------
(* movement.py: PathContext *)

\* A JSON object whose order of keys matters is the sequence of its
\* (key, value) pairs, [key, value], in the order of the file.
JsonKeys(obj) == {obj[i].key : i \in 1..Len(obj)}

JsonGet(obj, k) == obj[CHOOSE i \in 1..Len(obj) : obj[i].key = k].value

\* the object as TargetContext.from_dict reads it: the keys present and the
\* values of "cost", "allowing" and "blocking"
as_dir_dict(obj) ==
    [keys |-> JsonKeys(obj) \cap {"cost", "allowing", "blocking"},
     cost |-> IF "cost" \in JsonKeys(obj) THEN JsonGet(obj, "cost") ELSE None,
     allowing |-> IF "allowing" \in JsonKeys(obj) THEN JsonGet(obj, "allowing")
                  ELSE [kind |-> "list", items |-> << >>],
     blocking |-> IF "blocking" \in JsonKeys(obj) THEN JsonGet(obj, "blocking")
                  ELSE [kind |-> "list", items |-> << >>]]

RECURSIVE PathContext_dirs(_, _, _, _, _)
\* for dir_str, dir_dict in tgt_dict.items(): the innermost loop runs over
\* tgt_dict again (movement.py:452), not over the directions of the target
PathContext_dirs(tgt_dict, i, src_terrain, tgt_terrain, context) ==
    IF i > Len(tgt_dict) THEN Return(context)
    ELSE LET direction == Direction_from_string(tgt_dict[i].key)
             target_context == TargetContext_from_dict(as_dir_dict(tgt_dict[i].value))
         IN IF direction = 0 THEN Raise("ValueError")
            ELSE IF target_context.raised # "" THEN target_context
            ELSE PathContext_dirs(tgt_dict, i + 1, src_terrain, tgt_terrain,
                                  Put(context, << src_terrain, tgt_terrain, direction >>,
                                      target_context.value))

RECURSIVE PathContext_tgts(_, _, _, _)
\* for tgt_terrain_str, dir_dict in tgt_dict.items(): ...
PathContext_tgts(tgt_dict, j, src_terrain, context) ==
    IF j > Len(tgt_dict) THEN Return(context)
    ELSE LET tgt_terrain == Terrain_from_string(tgt_dict[j].key)
             r == PathContext_dirs(tgt_dict, 1, src_terrain, tgt_terrain, context)
         IN IF tgt_terrain = "ValueError" THEN Raise("ValueError")
            ELSE IF r.raised # "" THEN r
            ELSE PathContext_tgts(tgt_dict, j + 1, src_terrain, r.value)

RECURSIVE PathContext_srcs(_, _, _)
\* for src_terrain_str, tgt_dict in ctx_data.items(): ...
PathContext_srcs(ctx_data, k, context) ==
    IF k > Len(ctx_data) THEN Return(context)
    ELSE LET src_terrain == Terrain_from_string(ctx_data[k].key)
             r == PathContext_tgts(ctx_data[k].value, 1, src_terrain, context)
         IN IF src_terrain = "ValueError" THEN Raise("ValueError")
            ELSE IF r.raised # "" THEN r
            ELSE PathContext_srcs(ctx_data, k + 1, r.value)

\* PathContext.from_dict(ctx_data): the dict `inner` of the PathContext
PathContext_from_dict(ctx_data) == PathContext_srcs(ctx_data, 1, << >>)

-----------------------------------------------------------------------------

(* movement.py: Features, CostTable *)

\* Features is an IntFlag: EMPTY = 0, LOW_WALL = 1, HIGH_WALL = 2, ROUGH = 4,
\* LOOSE = 8, SWAMP = 16, WEEDS = 32, REEF = 64 (as sets of bit positions)
Features_from_string(s) ==
    CASE s = "empty" -> Return({})
      [] s = "low_wall" -> Return({0})
      [] s = "high_wall" -> Return({1})
      [] s = "rough" -> Return({2})
      [] s = "loose" -> Return({3})
      [] s = "swamp" -> Return({4})
      [] s = "weeds" -> Return({5})
      [] s = "reef" -> Return({6})
      [] OTHER -> Raise("ValueError")

\* the members of Features: EMPTY and the seven single flags
Features_members == { {} } \cup { {i} : i \in 0..6 }

\* Features.to_string(): one case per member (no case matches a combination
\* of flags)
Features_to_string(f) ==
    CASE f = {} -> "EMPTY"
      [] f = {0} -> "UNDERGROUND"
      [] f = {1} -> "WATER"
      [] f = {2} -> "DEEP"
      [] f = {3} -> "SHALLOW"
      [] f = {4} -> "SWAMP"
      [] f = {5} -> "WEEDS"
      [] f = {6} -> "REEF"

\* a movement type, source terrain or target terrain name of tdict raises
terrain_costs_raise(tdict) ==
    \E mv \in DOMAIN tdict :
        \/ MovementType_from_string(mv).raised # ""
        \/ \E s \in DOMAIN tdict[mv] :
              \/ Terrain_from_string(s) = "ValueError"
              \/ \E t \in DOMAIN tdict[mv][s] : Terrain_from_string(t) = "ValueError"

\* inner[(tgt_terrain, src_terrain)] = cost
terrain_cost_key(src_terrain, tgt_terrain) == << tgt_terrain, src_terrain >>

\* inner, for the cost_data of one movement type
terrain_costs_inner(cost_data) ==
    LET pairs == {<<s, t>> \in (DOMAIN cost_data) \X Terrain_names :
                     t \in DOMAIN cost_data[s]}
        key(p) == terrain_cost_key(Terrain_from_string(p[1]), Terrain_from_string(p[2]))
    IN [k \in {key(p) : p \in pairs} |->
           LET p == CHOOSE q \in pairs : key(q) = k IN cost_data[p[1]][p[2]]]

\* terrain_costs[move_type] = inner, for every movement type of tdict
terrain_costs_of(tdict) ==
    [m \in {MovementType_from_string(mv).value : mv \in DOMAIN tdict} |->
        terrain_costs_inner(
            tdict[CHOOSE mv \in DOMAIN tdict : MovementType_from_string(mv).value = m])]

\* feature_costs[Features.from_string(feature_str)] = cost
feature_costs_of(fdict) ==
    [f \in {Features_from_string(n).value : n \in DOMAIN fdict} |->
        fdict[CHOOSE n \in DOMAIN fdict : Features_from_string(n).value = f]]

RECURSIVE group_sum(_, _, _, _)
\* for feature_str in feature_list: to_add |= feature; cost += feature_costs[feature]
group_sum(feature_list, to_add, cost, feature_costs) ==
    IF feature_list = << >> THEN Return([to_add |-> to_add, cost |-> cost])
    ELSE LET feature == Features_from_string(Head(feature_list))
         IN IF feature.raised # "" THEN feature
            ELSE IF feature.value \notin DOMAIN feature_costs THEN Raise("KeyError")
            ELSE group_sum(Tail(feature_list), to_add \cup feature.value,
                           cost + feature_costs[feature.value], feature_costs)

RECURSIVE add_groups(_, _)
\* for feature_list in glist: ...; if to_add != Features.EMPTY: feature_costs[to_add] = cost
add_groups(glist, feature_costs) ==
    IF glist = << >> THEN Return(feature_costs)
    ELSE LET g == group_sum(Head(glist), {}, 0, feature_costs)
         IN IF g.raised # "" THEN g
            ELSE add_groups(Tail(glist),
                            IF g.value.to_add # {}
                            THEN Put(feature_costs, g.value.to_add, g.value.cost)
                            ELSE feature_costs)

\* CostTable.from_json_file(folder_path): tdict, fdict and glist are the
\* contents of terrain_costs.json, feature_costs.json and feature_groups.json
CostTable_from_json_file(tdict, fdict, glist) ==
    IF terrain_costs_raise(tdict) THEN Raise("ValueError")
    ELSE IF \E n \in DOMAIN fdict : Features_from_string(n).raised # ""
    THEN Raise("ValueError")
    ELSE LET feature_costs == add_groups(glist, feature_costs_of(fdict))
         IN IF feature_costs.raised # "" THEN feature_costs
            ELSE Return([by_terrain |-> terrain_costs_of(tdict),
                         by_feature |-> feature_costs.value])

-----------------------------------------------------------------------------
(* pathing.py: Location, LocationMap *)

Location(nid, terrain) == [nid |-> nid, terrain |-> terrain]

LocationMap_init == [nid |-> 0, tiles |-> EmptyODict,
                     walls_n |-> EmptyDict, walls_w |-> EmptyDict]

\* an insert that also stores the walls of the top row and of the left column
LocationMap_insert_edge_walls(lm, x, y, terrain) ==
    IF is_north_wall(terrain)
    THEN [lm EXCEPT !.walls_n = Put(@, <<x, y>>, Location(lm.nid, terrain)),
                    !.nid = @ + 1]
    ELSE IF is_west_wall(terrain)
    THEN [lm EXCEPT !.walls_w = Put(@, <<x, y>>, Location(lm.nid, terrain)),
                    !.nid = @ + 1]
    ELSE [lm EXCEPT !.tiles = OPut(@, <<x, y>>, Location(lm.nid, terrain)),
                    !.nid = @ + 1]

LocationMap_insert(lm, x, y, terrain) ==
    IF is_north_wall(terrain)
    THEN IF y > 0
         THEN [lm EXCEPT !.walls_n = Put(@, <<x, y>>, Location(lm.nid, terrain)),
                         !.nid = @ + 1]
         ELSE lm
    ELSE IF is_west_wall(terrain)
    THEN IF x > 0
         THEN [lm EXCEPT !.walls_w = Put(@, <<x, y>>, Location(lm.nid, terrain)),
                         !.nid = @ + 1]
         ELSE lm
    ELSE [lm EXCEPT !.tiles = OPut(@, <<x, y>>, Location(lm.nid, terrain)),
                    !.nid = @ + 1]

get_tile_id(lm, x, y) == Get(lm.tiles.at, <<x, y>>).nid

get_tile(lm, x, y) == Get(lm.tiles.at, <<x, y>>)

get_north_wall_id(lm, x, y) == Get(lm.walls_n, <<x, y>>).nid

get_north_wall(lm, x, y) == Get(lm.walls_n, <<x, y>>)

\* line 78 of the source reads walls_n, not walls_w
get_west_wall_id(lm, x, y) == Get(lm.walls_n, <<x, y>>).nid

get_west_wall(lm, x, y) == Get(lm.walls_w, <<x, y>>)

\* the (key, value) pairs of the tiles, in the order added
tile_items(lm) ==
    [i \in 1..Len(lm.tiles.order) |->
        [key |-> lm.tiles.order[i], location |-> lm.tiles.at[lm.tiles.order[i]]]]


Has(d, k) == k \in DOMAIN d

RECURSIVE insert_walls(_, _, _, _)
\* for wall_node in walls.get((x, y), []): location_map.insert(x, y, wall_node)
insert_walls(lm, x, y, wall_nodes) ==
    IF wall_nodes = << >> THEN lm
    ELSE insert_walls(LocationMap_insert(lm, x, y, Head(wall_nodes)),
                      x, y, Tail(wall_nodes))

RECURSIVE load_row(_, _, _, _, _)
\* for x, terrain_char in enumerate(str_row): ...
load_row(lm, walls, y, str_row, x) ==
    IF x >= Len(str_row) THEN lm
    ELSE LET terrain == Terrain_from_symbol(str_row[x + 1])
             lm1 == LocationMap_insert(lm, x, y, terrain)
             ws == IF Has(walls, <<x, y>>) THEN walls[<<x, y>>] ELSE << >>
             lm2 == insert_walls(lm1, x, y, ws)
         \* nid is never negative: the test only has lm2 computed before the
         \* next iteration
         IN IF lm2.nid >= 0 THEN load_row(lm2, walls, y, str_row, x + 1) ELSE lm2

RECURSIVE load_rows(_, _, _, _)
\* for y, str_row in enumerate(tiles): ...
load_rows(lm, walls, tiles, y) ==
    IF y >= Len(tiles) THEN lm
    ELSE load_rows(load_row(lm, walls, y, tiles[y + 1], 0), walls, tiles, y + 1)

\* walls[(int(x), int(y))] = [Terrain.from_string(w) for w in wall_strs]
\* (the keys of jd.walls are the coordinate pairs the "x,y" strings denote)
parse_walls(jd) ==
    [c \in DOMAIN jd.walls |->
        [i \in 1..Len(jd.walls[c]) |-> Terrain_from_string(jd.walls[c][i])]]

\* a loader that checks the number of rows and not their lengths
from_json_file_raises_unless_rows_match(jd, st) ==
    \/ \E c \in DOMAIN jd.walls : \E i \in 1..Len(jd.walls[c]) :
          Terrain_from_string(jd.walls[c][i]) = "ValueError"
    \/ Len(jd.tiles) # st.ydims
    \/ \E y \in 1..Len(jd.tiles) : \E x \in 1..Len(jd.tiles[y]) :
          Terrain_from_symbol(jd.tiles[y][x]) = "ValueError"

\* the cases in which from_json_file raises ValueError
from_json_file_raises(jd, st) ==
    \/ \E c \in DOMAIN jd.walls : \E i \in 1..Len(jd.walls[c]) :
          Terrain_from_string(jd.walls[c][i]) = "ValueError"
    \/ Len(jd.tiles) # st.ydims
    \/ \E y \in 1..Len(jd.tiles) :
          \/ Len(jd.tiles[y]) # st.xdims
          \/ \E x \in 1..Len(jd.tiles[y]) :
                Terrain_from_symbol(jd.tiles[y][x]) = "ValueError"

\* the LocationMap from_json_file returns when it does not raise
from_json_file(jd, st) ==
    load_rows(LocationMap_init, parse_walls(jd), jd.tiles, 0)

-----------------------------------------------------------------------------
(* pathing.py: Neighbors, NeighborMap *)

Neighbors(nw, n, ne, w, e, sw, s, se) ==
    [NW |-> nw, N |-> n, NE |-> ne, W |-> w, E |-> e, SW |-> sw, S |-> s, SE |-> se]

NeighborMap_neighbors(t, xdims, ydims) ==
    LET div == t % xdims
        left == div = 0
        right == ~left /\ div = xdims - 1
        top == t < xdims
        bottom == ~top /\ t >= xdims * ydims - xdims
        nw == IF left \/ top THEN None ELSE t - xdims - 1
        n == IF top THEN None ELSE t - xdims
        ne == IF right \/ top THEN None ELSE t - xdims + 1
        w == IF left THEN None ELSE t - 1
        e == IF right THEN None ELSE t + 1
        sw == IF left \/ bottom THEN None ELSE t + xdims - 1
        s == IF bottom THEN None ELSE t + xdims
        se == IF right \/ bottom THEN None ELSE t + xdims + 1
    IN Neighbors(nw, n, ne, w, e, sw, s, se)

-----------------------------------------------------------------------------
(* pathing.py: Node *)

\* a constructor that rejects EMPTY alone
Node_raises_empty_only(terrain) == terrain = "EMPTY"

\* the base terrains for which Node.__init__ raises ValueError
Node_raises(terrain) == terrain \in {"EMPTY", "UNDERGROUND", "UNDERWATER", "AIR"}

Node(x, y, terrain, features, N, S, E, W, NW, NE, SW, SE) ==
    [x |-> x, y |-> y, terrain |-> terrain, features |-> features,
     N |-> N, S |-> S, E |-> E, W |-> W, NW |-> NW, NE |-> NE, SW |-> SW, SE |-> SE,
     above |-> "AIR",
     below |-> IF terrain = "DEEP" THEN "UNDERWATER" ELSE "UNDERGROUND"]

\* `a` unless it is None, then `b`
OrElse(a, b) == IF a = None THEN b ELSE a

Node_tile(x, y, t, f, lm) ==
    Node(x, y, t, f,
         OrElse(get_north_wall_id(lm, x, y), get_tile_id(lm, x, y - 1)),
         OrElse(get_north_wall_id(lm, x, y + 1), get_tile_id(lm, x, y + 1)),
         OrElse(get_west_wall_id(lm, x + 1, y), get_tile_id(lm, x + 1, y)),
         OrElse(get_west_wall_id(lm, x, y), get_tile_id(lm, x - 1, y)),
         get_tile_id(lm, x - 1, y - 1),
         get_tile_id(lm, x + 1, y - 1),
         get_tile_id(lm, x - 1, y + 1),
         get_tile_id(lm, x + 1, y + 1))

Node_north_wall(x, y, t, f, lm) ==
    Node(x, y, t, f, get_tile_id(lm, x, y - 1), get_tile_id(lm, x, y + 1),
         None, None, None, None, None, None)

Node_west_wall(x, y, t, f, lm) ==
    Node(x, y, t, f, None, None, get_tile_id(lm, x + 1, y), get_tile_id(lm, x - 1, y),
         None, None, None, None)

\* the sub-sequence of the truthy elements
RECURSIVE FilterTruthy(_)
FilterTruthy(s) ==
    IF s = << >> THEN << >>
    ELSE IF Truthy(Head(s)) THEN << Head(s) >> \o FilterTruthy(Tail(s))
    ELSE FilterTruthy(Tail(s))

\* the cardinal neighbours only (edges_cardinal in place of edges)
edges_cardinal_only(n) == FilterTruthy(<< n.N, n.W, n.E, n.S >>)

edges(n) == FilterTruthy(<< n.NW, n.NE, n.SW, n.SE, n.N, n.W, n.E, n.S >>)

edges_cardinal(n) == FilterTruthy(<< n.N, n.W, n.E, n.S >>)

edges_diagonal(n) == FilterTruthy(<< n.NW, n.NE, n.SW, n.SE >>)

\* has_valid_neighbor_nw(self, tgt, n, w, context): the flanking nodes n and w
\* are parameters the body does not read; context maps a terrain to a mask
has_valid_neighbor_nw(self, target, n, w, context) ==
    BitAnd(context[self.terrain], Bits(Terrain_value(target.terrain))) # {}

has_valid_neighbor_ne(self, target, n, e, context) ==
    BitAnd(context[self.terrain], Bits(Terrain_value(target.terrain))) # {}

has_valid_neighbor_sw(self, target, s, w, context) ==
    BitAnd(context[self.terrain], Bits(Terrain_value(target.terrain))) # {}

has_valid_neighbor_se(self, target, s, e, context) ==
    BitAnd(context[self.terrain], Bits(Terrain_value(target.terrain))) # {}

-----------------------------------------------------------------------------
(* pathing.py: get_valid_neighbors *)

has_valid_neighbor_n(self, target, context) ==
    BitAnd(context[self.terrain], Bits(Terrain_value(target.terrain))) # {}

has_valid_neighbor_s(self, target, context) ==
    BitAnd(context[self.terrain], Bits(Terrain_value(target.terrain))) # {}

has_valid_neighbor_e(self, target, context) ==
    BitAnd(context[self.terrain], Bits(Terrain_value(target.terrain))) # {}

has_valid_neighbor_w(self, target, context) ==
    BitAnd(context[self.terrain], Bits(Terrain_value(target.terrain))) # {}

\* NeighborMap(xdims, ydims).inner
NeighborMap(xdims, ydims) ==
    [t \in 0..(ydims * xdims - 1) |-> NeighborMap_neighbors(t, xdims, ydims)]

\* tiles[nbrs.D] if nbrs.D else None (a negative index counts from the end)
neighbor_node(tiles, v) ==
    IF ~Truthy(v) THEN None
    ELSE IF v >= 0 THEN tiles[v + 1] ELSE tiles[Len(tiles) + v + 1]

\* one of the eight reads tiles[nbrs.D] raises IndexError
neighbor_nodes_raise(tiles, nbrs) ==
    \E v \in {nbrs.N, nbrs.S, nbrs.E, nbrs.W, nbrs.NW, nbrs.NE, nbrs.SW, nbrs.SE} :
        Truthy(v) /\ (v >= Len(tiles) \/ v < 0 - Len(tiles))

\* the body of the loop: `valid` after the eight tests; tiles[nbrs.D] is a
\* Node, which is truthy, exactly when nbrs.D is truthy
valid_neighbors_of(tiles, tile, nbrs, ctx) ==
    LET N == neighbor_node(tiles, nbrs.N)
        S == neighbor_node(tiles, nbrs.S)
        E == neighbor_node(tiles, nbrs.E)
        W == neighbor_node(tiles, nbrs.W)
        NW == neighbor_node(tiles, nbrs.NW)
        NE == neighbor_node(tiles, nbrs.NE)
        SW == neighbor_node(tiles, nbrs.SW)
        SE == neighbor_node(tiles, nbrs.SE)
    IN Neighbors(
         IF Truthy(nbrs.NW) /\ has_valid_neighbor_nw(tile, NW, N, W, ctx) THEN nbrs.NW ELSE None,
         IF Truthy(nbrs.N) /\ has_valid_neighbor_n(tile, N, ctx) THEN nbrs.N ELSE None,
         IF Truthy(nbrs.NE) /\ has_valid_neighbor_ne(tile, NE, N, E, ctx) THEN nbrs.NE ELSE None,
         IF Truthy(nbrs.W) /\ has_valid_neighbor_w(tile, W, ctx) THEN nbrs.W ELSE None,
         IF Truthy(nbrs.E) /\ has_valid_neighbor_e(tile, E, ctx) THEN nbrs.E ELSE None,
         IF Truthy(nbrs.SW) /\ has_valid_neighbor_sw(tile, SW, S, W, ctx) THEN nbrs.SW ELSE None,
         IF Truthy(nbrs.S) /\ has_valid_neighbor_s(tile, S, ctx) THEN nbrs.S ELSE None,
         IF Truthy(nbrs.SE) /\ has_valid_neighbor_se(tile, SE, S, E, ctx) THEN nbrs.SE ELSE None)

RECURSIVE get_valid_neighbors_from(_, _, _, _, _)
\* for tid, tile in enumerate(tiles): ...
get_valid_neighbors_from(tiles, neighbors, ctx, t, valid_neighbors) ==
    IF t >= Len(tiles) THEN Return(valid_neighbors)
    ELSE IF t \notin DOMAIN neighbors THEN Raise("KeyError")
    ELSE IF neighbor_nodes_raise(tiles, neighbors[t]) THEN Raise("IndexError")
    \* context[self.terrain] in the first has_valid_neighbor_* called
    ELSE IF /\ \E D \in DOMAIN neighbors[t] : Truthy(neighbors[t][D])
            /\ tiles[t + 1].terrain \notin DOMAIN ctx
    THEN Raise("KeyError")
    ELSE get_valid_neighbors_from(tiles, neighbors, ctx, t + 1,
             Put(valid_neighbors, t,
                 valid_neighbors_of(tiles, tiles[t + 1], neighbors[t], ctx)))

\* get_valid_neighbors(tiles, neighbors, ctx): the dict returned, with the
\* arguments as the call leaves them (the function assigns to neither)
get_valid_neighbors(tiles, neighbors, ctx) ==
    LET r == get_valid_neighbors_from(tiles, neighbors, ctx, 0, << >>)
    IN [raised |-> r.raised, value |-> r.value, tiles |-> tiles, neighbors |-> neighbors]

-----------------------------------------------------------------------------

(* pathing.py: PathMap *)

\* the nodes one iteration of the loop of PathMap.__init__ appends
nodes_of_tile(item, lm) ==
    LET x == item.key[1]
        y == item.key[2]
        t == item.location.terrain
    IN  << Node_tile(x, y, t, "EMPTY", lm) >>
        \o (IF Has(lm.walls_n, <<x, y>>)
            THEN << Node_north_wall(x, y, t, "EMPTY", lm) >> ELSE << >>)
        \o (IF Has(lm.walls_w, <<x, y>>)
            THEN << Node_west_wall(x, y, t, "EMPTY", lm) >> ELSE << >>)

RECURSIVE build_nodes(_, _, _)
build_nodes(items, lm, i) ==
    IF i > Len(items) THEN << >>
    ELSE nodes_of_tile(items[i], lm) \o build_nodes(items, lm, i + 1)

\* Node.__init__ raises for one of the tiles
PathMap_raises(lm) ==
    \E i \in 1..Len(lm.tiles.order) : Node_raises(tile_items(lm)[i].location.terrain)

PathMap(lm, st) ==
    [nodes |-> build_nodes(tile_items(lm), lm, 1), xdims |-> st.xdims, ydims |-> st.ydims]

\* pathmap.node(tid) raises IndexError unless tid indexes the list
node_in_range(pm, t) == t >= 0 /\ t < Len(pm.nodes)

PathMap_node(pm, t) == pm.nodes[t + 1]

-----------------------------------------------------------------------------
(* Inputs *)

\* grid dimensions of the search model
GridDims ==
    {d \in [xdims : 1..MaxTiles, ydims : 1..MaxTiles] : d.xdims * d.ydims <= MaxTiles}

GridCoords(d) == (0..(d.xdims - 1)) \X (0..(d.ydims - 1))

\* terrain symbols the rows of the map are filled with
TileSymbols == {"F"}

\* the wall lists a coordinate of the "walls" object may carry
WallLists == { << "high_wall_n" >>, << "high_wall_w" >>,
               << "high_wall_n", "high_wall_w" >>,
               << "high_wall_w", "high_wall_n" >>,
               << "high_wall_n", "low_wall_n" >> }

\* rows of a ydims x xdims map filled with one symbol
UniformTiles(d, sym) == [y \in 1..d.ydims |-> [x \in 1..d.xdims |-> sym]]

\* the "walls" objects with at most MaxWalls keys
WallDicts(d) ==
    UNION { [cs -> WallLists] : cs \in {c \in SUBSET GridCoords(d) : Cardinality(c) <= MaxWalls} }

NoPath == [some |-> FALSE, path |-> << >>]

SomePath(p) == [some |-> TRUE, path |-> p]

\* the values the variables of a search hold before it is called
IdleSearch ==
    /\ src = 0 /\ tgt = 0
    /\ curr = << >> /\ next = << >>
    /\ seen = {} /\ seen_p = << >>
    /\ depth = 0 /\ path = << >> /\ to_node = None /\ pops = 0
    /\ bfs = None /\ bfs_p = NoPath /\ sp = None

Init ==
    /\ pc = "start"
    /\ settings \in GridDims
    /\ \E sym \in TileSymbols : \E ws \in WallDicts(settings) :
          jdict = [tiles |-> UniformTiles(settings, sym), walls |-> ws]
    /\ location_map = LocationMap_init
    /\ pathmap = [nodes |-> << >>, xdims |-> 0, ydims |-> 0]
    /\ mvtype = "NONE"
    /\ IdleSearch
    /\ raised = {}
    /\ tid = 0
    /\ inner = << >>
    /\ call = NoCall
    /\ ret = NoReturn

-----------------------------------------------------------------------------
(* Building the graph *)

search_vars == << src, tgt, curr, next, seen, seen_p, depth, path, to_node, pops,
                  bfs, bfs_p, sp >>

\* location_map = LocationMap.from_json_file(fp, settings)
LoadMap ==
    /\ pc = "start"
    /\ IF from_json_file_raises(jdict, settings)
       THEN /\ raised' = raised \cup {"from_json_file"}
            /\ pc' = "raised"
            /\ UNCHANGED location_map
       ELSE /\ location_map' = from_json_file(jdict, settings)
            /\ pc' = "loaded"
            /\ UNCHANGED raised
    /\ UNCHANGED << settings, jdict, pathmap, mvtype, search_vars, tid, inner, call, ret >>

\* pathmap = PathMap(location_map, settings)
BuildPathMap ==
    /\ pc = "loaded"
    /\ IF PathMap_raises(location_map)
       THEN /\ raised' = raised \cup {"PathMap"}
            /\ pc' = "raised"
            /\ UNCHANGED pathmap
       ELSE /\ pathmap' = PathMap(location_map, settings)
            /\ pc' = "built"
            /\ UNCHANGED raised
    /\ UNCHANGED << settings, jdict, location_map, mvtype, search_vars, tid, inner, call, ret >>

-----------------------------------------------------------------------------
(* pathing.py: breadth_first_search_depth *)

graph_vars == << settings, jdict, location_map, pathmap >>

input_vars == << settings, jdict, location_map >>

SeqToSet(s) == {s[i] : i \in 1..Len(s)}

Last(s) == s[Len(s)]

Front(s) == SubSeq(s, 1, Len(s) - 1)

\* a search that marks the node it visits in the graph instead of in `seen`
pathmap_marks_visited(pm, node) ==
    IF node_in_range(pm, node)
    THEN [pm EXCEPT !.nodes[node + 1].features = "SEEN"]
    ELSE pm

\* the graph as the visit of `node` leaves it: a search assigns to no attribute
\* of pathmap or of a Node; edges() builds a new list, and curr, next and seen
\* are objects of the call
pathmap_after_visit(pm, node) == pm

RECURSIVE visit(_, _, _)
\* for edge in edges: if edge not in seen: next.append(edge); seen.add(edge)
visit(es, nxt, sn) ==
    IF es = << >> THEN [next |-> nxt, seen |-> sn]
    ELSE IF Head(es) \notin sn
    THEN visit(Tail(es), Append(nxt, Head(es)), sn \cup {Head(es)})
    ELSE visit(Tail(es), nxt, sn)

\* the call, up to the first test of `while curr`
bfs_depth_call(s, t) ==
    /\ src' = s
    /\ tgt' = t
    /\ pops' = 0
    /\ IF s = t
       THEN /\ bfs' = 0
            /\ pc' = "depth_done"
            /\ UNCHANGED << curr, next, seen, depth, pathmap >>
       ELSE LET es == edges(PathMap_node(pathmap, s))
            IN  /\ pathmap' = pathmap_after_visit(pathmap, s)
                /\ curr' = es
                /\ next' = << >>
                /\ seen' = {s} \cup SeqToSet(es)
                /\ depth' = 1
                /\ bfs' = None
                /\ pc' = IF es = << >> THEN "depth_done" ELSE "bfs_depth"
    /\ UNCHANGED << seen_p, path, to_node, bfs_p, sp >>

\* one iteration of the inner `while curr`
bfs_depth_pop ==
    /\ pc = "bfs_depth"
    /\ curr # << >>
    /\ LET node == Last(curr)
       IN  /\ curr' = Front(curr)
           /\ pops' = pops + 1
           /\ IF node = tgt
              THEN /\ bfs' = depth
                   /\ pc' = "depth_done"
                   /\ UNCHANGED << next, seen, raised, pathmap >>
              ELSE IF ~node_in_range(pathmap, node)
              THEN /\ raised' = raised \cup {"breadth_first_search_depth"}
                   /\ pc' = "depth_done"
                   /\ UNCHANGED << next, seen, bfs, pathmap >>
              ELSE LET v == visit(edges(PathMap_node(pathmap, node)), next, seen)
                   IN  /\ pathmap' = pathmap_after_visit(pathmap, node)
                       /\ next' = v.next
                       /\ seen' = v.seen
                       /\ UNCHANGED << pc, bfs, raised >>
    /\ UNCHANGED << input_vars, mvtype, src, tgt, depth, seen_p, path, to_node,
                    bfs_p, sp, tid, inner, call, ret >>

\* the inner loop has drained curr: depth += 1; curr, next = next, curr;
\* then the test of the outer `while curr`
bfs_depth_swap ==
    /\ pc = "bfs_depth"
    /\ curr = << >>
    /\ depth' = depth + 1
    /\ curr' = next
    /\ next' = curr
    /\ pc' = IF next = << >> THEN "depth_done" ELSE "bfs_depth"
    /\ UNCHANGED << graph_vars, mvtype, src, tgt, seen, seen_p, path, to_node, pops,
                    bfs, bfs_p, sp, raised, tid, inner, call, ret >>

-----------------------------------------------------------------------------
(* pathing.py: breadth_first_search *)

RECURSIVE seen_all(_, _, _)
\* for edge in edges: seen[edge] = s
seen_all(es, sn, s) ==
    IF es = << >> THEN sn ELSE seen_all(Tail(es), Put(sn, Head(es), s), s)

RECURSIVE visit_p(_, _, _, _)
\* for edge in edges: if edge not in seen: next.append(edge); seen[edge] = node
visit_p(es, nxt, sn, node) ==
    IF es = << >> THEN [next |-> nxt, seen |-> sn]
    ELSE IF ~Has(sn, Head(es))
    THEN visit_p(Tail(es), Append(nxt, Head(es)), Put(sn, Head(es), node), node)
    ELSE visit_p(Tail(es), nxt, sn, node)

\* the value returned when src == tgt
trivial_path(s) == << 0 >>

\* the call, up to the first test of `while curr`
bfs_path_call(s, t) ==
    /\ src' = s
    /\ tgt' = t
    /\ pops' = 0
    /\ path' = << >>
    /\ to_node' = None
    /\ IF s = t
       THEN /\ bfs_p' = SomePath(trivial_path(s))
            /\ pc' = "path_done"
            /\ UNCHANGED << curr, next, seen_p, pathmap >>
       ELSE LET es == edges(PathMap_node(pathmap, s))
            IN  /\ pathmap' = pathmap_after_visit(pathmap, s)
                /\ curr' = es
                /\ next' = << >>
                /\ seen_p' = seen_all(es, Put(<< >>, s, None), s)
                /\ bfs_p' = NoPath
                /\ pc' = IF es = << >> THEN "path_done" ELSE "bfs_path"

\* one iteration of the inner `while curr`
bfs_path_pop ==
    /\ pc = "bfs_path"
    /\ curr # << >>
    /\ LET node == Last(curr)
       IN  /\ curr' = Front(curr)
           /\ pops' = pops + 1
           /\ IF node = tgt
              THEN /\ path' = << >>
                   /\ to_node' = node
                   /\ pc' = "bfs_walk"
                   /\ UNCHANGED << next, seen_p, raised, pathmap >>
              ELSE IF ~node_in_range(pathmap, node)
              THEN /\ raised' = raised \cup {"breadth_first_search"}
                   /\ pc' = "path_done"
                   /\ UNCHANGED << next, seen_p, path, to_node, pathmap >>
              ELSE LET v == visit_p(edges(PathMap_node(pathmap, node)), next, seen_p, node)
                   IN  /\ pathmap' = pathmap_after_visit(pathmap, node)
                       /\ next' = v.next
                       /\ seen_p' = v.seen
                       /\ UNCHANGED << pc, path, to_node, raised >>
    /\ UNCHANGED << input_vars, mvtype, src, tgt, seen, depth, bfs, bfs_p, sp,
                    tid, inner, call, ret >>

\* one iteration of `while to_node`, or its exit: path.append(src); return path
bfs_path_walk ==
    /\ pc = "bfs_walk"
    /\ Len(path) <= Len(pathmap.nodes) + MaxExtra
    /\ IF Truthy(to_node)
       THEN IF Has(seen_p, to_node)
            THEN /\ path' = Append(path, to_node)
                 /\ to_node' = seen_p[to_node]
                 /\ UNCHANGED << pc, bfs_p, raised >>
            ELSE /\ raised' = raised \cup {"breadth_first_search"}
                 /\ pc' = "path_done"
                 /\ UNCHANGED << path, to_node, bfs_p >>
       ELSE /\ path' = Append(path, src)
            /\ bfs_p' = SomePath(Append(path, src))
            /\ pc' = "path_done"
            /\ UNCHANGED << to_node, raised >>
    /\ UNCHANGED << graph_vars, mvtype, src, tgt, curr, next, seen, seen_p, depth,
                    pops, bfs, sp, tid, inner, call, ret >>

\* the inner loop has drained curr: curr, next = next, curr; then `while curr`
bfs_path_swap ==
    /\ pc = "bfs_path"
    /\ curr = << >>
    /\ curr' = next
    /\ next' = curr
    /\ pc' = IF next = << >> THEN "path_done" ELSE "bfs_path"
    /\ UNCHANGED << graph_vars, mvtype, src, tgt, seen, seen_p, depth, path, to_node,
                    pops, bfs, bfs_p, sp, raised, tid, inner, call, ret >>

-----------------------------------------------------------------------------
(* pathing.py: shortest_path *)

\* the body is `path = []`: the function returns None
shortest_path(pm) == None

-----------------------------------------------------------------------------
(* Queries on a built graph *)

\* the ids of the nodes of the graph: the valid sources
NodeIds(pm) == 0..(Len(pm.nodes) - 1)

\* the ids a target is drawn from: every id the LocationMap gave out, and one more
TargetIds == 0..location_map.nid

\* bfs = breadth_first_search_depth(pathmap, src, tgt)
QueryDepth ==
    /\ pc = "built"
    /\ \E s \in NodeIds(pathmap) : \E t \in TargetIds : bfs_depth_call(s, t)
    /\ UNCHANGED << input_vars, mvtype, raised, tid, inner, call, ret >>

\* bfs_p = breadth_first_search(pathmap, src, tgt)
QueryPath ==
    /\ pc = "depth_done"
    /\ bfs_path_call(src, tgt)
    /\ UNCHANGED << input_vars, mvtype, seen, depth, bfs, sp, raised, tid, inner, call, ret >>

\* shortest_path(pathmap)
QueryShortestPath ==
    /\ pc = "path_done"
    /\ sp' = shortest_path(pathmap)
    /\ pc' = "done"
    /\ UNCHANGED << graph_vars, mvtype, src, tgt, curr, next, seen, seen_p, depth,
                    path, to_node, pops, bfs, bfs_p, raised, tid, inner, call, ret >>

Next ==
    \/ LoadMap
    \/ BuildPathMap
    \/ QueryDepth
    \/ bfs_depth_pop
    \/ bfs_depth_swap
    \/ QueryPath
    \/ bfs_path_pop
    \/ bfs_path_swap
    \/ bfs_path_walk
    \/ QueryShortestPath

Spec == Init /\ [][Next]_vars

-----------------------------------------------------------------------------
(* The program run to its end *)

\* the interpreter runs the statements one after another: a step that can be
\* taken is taken
SpecLive == Init /\ [][Next]_vars /\ WF_vars(Next)

-----------------------------------------------------------------------------

(* pathing.py: __main__ *)

\* Coords(8, 6) of the Settings of __main__
MainXdims == 8

MainYdims == 6

\* src = 0; tgt = 47
MainSrc == 0

MainTgt == 47

\* the map of the scenario: 48 uniform FLAT tiles, no walls
InitMain ==
    /\ pc = "start"
    /\ settings = [xdims |-> MainXdims, ydims |-> MainYdims]
    /\ jdict = [tiles |-> UniformTiles(settings, "F"), walls |-> << >>]
    /\ location_map = LocationMap_init
    /\ pathmap = [nodes |-> << >>, xdims |-> 0, ydims |-> 0]
    /\ mvtype = "TERRESTRIAL"
    /\ IdleSearch
    /\ raised = {}
    /\ tid = 0
    /\ inner = << >>
    /\ call = NoCall
    /\ ret = NoReturn

\* mvtype = TERRESTRIAL; bfs = breadth_first_search_depth(pathmap, src, tgt)
MainDepth ==
    /\ pc = "built"
    /\ bfs_depth_call(MainSrc, MainTgt)
    /\ UNCHANGED << input_vars, mvtype, raised, tid, inner, call, ret >>

\* mvtype = AMPHIBIOUS; bfs = breadth_first_search_depth(pathmap, src, tgt)
MainDepthAgain ==
    /\ pc = "path_done"
    /\ mvtype = "TERRESTRIAL"
    /\ mvtype' = "AMPHIBIOUS"
    /\ bfs_depth_call(MainSrc, MainTgt)
    /\ UNCHANGED << input_vars, raised, tid, inner, call, ret >>

NextMain ==
    \/ LoadMap
    \/ BuildPathMap
    \/ MainDepth
    \/ bfs_depth_pop
    \/ bfs_depth_swap
    \/ QueryPath
    \/ bfs_path_pop
    \/ bfs_path_swap
    \/ bfs_path_walk
    \/ MainDepthAgain

SpecMain == InitMain /\ [][NextMain]_vars

-----------------------------------------------------------------------------
(* pathing.py: NeighborMap.__init__ *)

InitNeighbors ==
    /\ pc = "neighbor_map"
    /\ settings \in [xdims : 1..MaxDim, ydims : 1..MaxDim]
    /\ jdict = [tiles |-> << >>, walls |-> << >>]
    /\ location_map = LocationMap_init
    /\ pathmap = [nodes |-> << >>, xdims |-> 0, ydims |-> 0]
    /\ mvtype = "NONE"
    /\ IdleSearch
    /\ raised = {}
    /\ tid = 0
    /\ inner = << >>
    /\ call = NoCall
    /\ ret = NoReturn

\* one iteration of `for tid in range(ydims * xdims)`
NeighborMapStep ==
    /\ pc = "neighbor_map"
    /\ tid < settings.ydims * settings.xdims
    /\ inner' = Put(inner, tid, NeighborMap_neighbors(tid, settings.xdims, settings.ydims))
    /\ tid' = tid + 1
    /\ UNCHANGED << pc, graph_vars, mvtype, search_vars, raised, call, ret >>

NextNeighbors == NeighborMapStep

SpecNeighbors == InitNeighbors /\ [][NextNeighbors]_vars

-----------------------------------------------------------------------------
(* Single calls of the constructors and of the functions of movement.py *)

\* the variables a single call leaves alone
program_vars == << settings, jdict, location_map, pathmap, mvtype, search_vars,
                   raised, tid, inner >>

InitCalls ==
    /\ pc = "call"
    /\ settings = [xdims |-> 2, ydims |-> 2]
    /\ jdict = [tiles |-> UniformTiles(settings, "F"), walls |-> << >>]
    /\ location_map = from_json_file(jdict, settings)
    /\ pathmap = [nodes |-> << >>, xdims |-> 0, ydims |-> 0]
    /\ mvtype = "NONE"
    /\ IdleSearch
    /\ raised = {}
    /\ tid = 0
    /\ inner = << >>
    /\ call = NoCall
    /\ ret = NoReturn

\* the ways a Node is constructed
NodeConstructors == {"Node", "Node.tile", "Node.north_wall", "Node.west_wall", "PathMap"}

\* the outcome of constructing a Node of terrain t at (x, y) by fn; for
\* PathMap, of building the PathMap of a LocationMap whose one tile has terrain t
construct(fn, x, y, t, lm, st) ==
    CASE fn = "Node" ->
            IF Node_raises(t) THEN Raise("ValueError")
            ELSE Return(Node(x, y, t, "EMPTY", None, None, None, None, None, None, None, None))
      [] fn = "Node.tile" ->
            IF Node_raises(t) THEN Raise("ValueError")
            ELSE Return(Node_tile(x, y, t, "EMPTY", lm))
      [] fn = "Node.north_wall" ->
            IF Node_raises(t) THEN Raise("ValueError")
            ELSE Return(Node_north_wall(x, y, t, "EMPTY", lm))
      [] fn = "Node.west_wall" ->
            IF Node_raises(t) THEN Raise("ValueError")
            ELSE Return(Node_west_wall(x, y, t, "EMPTY", lm))
      [] fn = "PathMap" ->
            LET one == LocationMap_insert(LocationMap_init, x, y, t)
            IN IF PathMap_raises(one) THEN Raise("ValueError")
               ELSE Return(PathMap(one, st))

\* Node(...), Node.tile(...), Node.north_wall(...), Node.west_wall(...), PathMap(...)
CallNode ==
    /\ pc = "call"
    /\ \E fn \in NodeConstructors : \E t \in Terrain : \E c \in GridCoords(settings) :
          /\ call' = [fn |-> fn, x |-> c[1], y |-> c[2], terrain |-> t]
          /\ ret' = construct(fn, c[1], c[2], t, location_map, settings)
    /\ pc' = "returned"
    /\ UNCHANGED program_vars

\* rows of at most MaxRowLen symbols, and lists of at most MaxRows rows
MaxRowLen == 2

MaxRows == 2

\* at most MaxRows rows of at most MaxRowLen symbols, "x" no symbol of a terrain
TileRows ==
    LET RowSymbols == {"F", "x"}
        Rows == UNION { [1..n -> RowSymbols] : n \in 0..MaxRowLen }
    IN UNION { [1..n -> Rows] : n \in 0..MaxRows }

\* the settings of the calls
CallSettings == [xdims : 1..MaxRowLen, ydims : 1..MaxRows]

\* LocationMap.from_json_file(fp, settings), jd being the content of the file
CallFromJsonFile ==
    /\ pc = "call"
    /\ \E st \in CallSettings : \E tiles \in TileRows :
       \* the "walls" object: none, a known wall, an unknown wall name
       \E walls \in { << >>, (<<0, 1>> :> << "high_wall_n" >>), (<<1, 0>> :> << "wall" >>) } :
          LET jd == [tiles |-> tiles, walls |-> walls]
          IN /\ call' = [fn |-> "from_json_file", jd |-> jd, st |-> st]
             /\ ret' = IF from_json_file_raises(jd, st) THEN Raise("ValueError")
                       ELSE Return(from_json_file(jd, st))
    /\ pc' = "returned"
    /\ UNCHANGED program_vars

\* the symbols of Terrain.from_symbol
SymbolVocabulary == {"D", "S", "F", "L", "M", "H", "n", "w", "N", "W"}

\* strings outside the vocabulary: other letters, the other case of a symbol,
\* initials of the remaining terrains, the empty string, longer strings
OtherSymbols == {"d", "s", "f", "l", "m", "h", "E", "U", "A", "x", " ", "", "DD", "flat"}

\* Terrain.from_symbol(s)
CallFromSymbol ==
    /\ pc = "call"
    /\ \E s \in SymbolVocabulary \cup OtherSymbols :
          /\ call' = [fn |-> "Terrain.from_symbol", s |-> s]
          /\ ret' = IF Terrain_from_symbol(s) = "ValueError" THEN Raise("ValueError")
                    ELSE Return(Terrain_from_symbol(s))
    /\ pc' = "returned"
    /\ UNCHANGED program_vars

\* the six names, the same in other letter cases, and other strings
MovementTypeNames == {"terrestrial", "subterranean", "amphibious", "deep_amphibious",
                      "aquatic", "aerial"}

OtherMovementStrings == {"TERRESTRIAL", "SUBTERRANEAN", "AMPHIBIOUS", "DEEP_AMPHIBIOUS",
                         "AQUATIC", "AERIAL", "Terrestrial", "Deep_Amphibious", "Aerial",
                         "deep-amphibious", "deep amphibious", "deepamphibious",
                         "flying", "", "0", "flat"}

\* MovementType.from_string(s)
CallMovementTypeFromString ==
    /\ pc = "call"
    /\ \E s \in MovementTypeNames \cup OtherMovementStrings :
          /\ call' = [fn |-> "MovementType.from_string", s |-> s]
          /\ ret' = MovementType_from_string(s)
    /\ pc' = "returned"
    /\ UNCHANGED program_vars

\* MovementType.from_string(m.to_string().lower())
CallMovementTypeRoundTrip ==
    /\ pc = "call"
    /\ \E m \in MovementType :
          /\ call' = [fn |-> "MovementType.from_string(to_string().lower())", m |-> m]
          /\ ret' = MovementType_from_string(str_lower(MovementType_to_string(m)))
    /\ pc' = "returned"
    /\ UNCHANGED program_vars

JsonList(items) == [kind |-> "list", items |-> items]

JsonDict(at) == [kind |-> "dict", at |-> at]

\* values of "allowing" and "blocking": as typed in from_dict (a list of
\* objects) and as documented in PathContext.from_dict (an object)
RuleData ==
    { JsonList(<< >>),
      JsonList(<< ("N" :> << "flat" >>) >>),
      JsonList(<< ("N" :> << >>) >>),
      JsonList(<< ("N" :> << "flat", "low" >> @@ "E" :> << "empty" >>) >>),
      JsonList(<< ("N" :> << "flat" >>), ("N" :> << >> @@ "W" :> << "deep" >>) >>),
      JsonList(<< ("N" :> << "lava" >>) >>),
      JsonList(<< ("north" :> << "flat" >>) >>),
      JsonDict(<< >>),
      JsonDict(("N" :> << "flat" >> @@ "E" :> << "flat" >>)) }

\* TargetContext.from_dict(dir_dict)
CallTargetContextFromDict ==
    /\ pc = "call"
    /\ \E keys \in SUBSET {"cost", "allowing", "blocking"} :
       \E cost \in {10, 14} : \E allowing \in RuleData : \E blocking \in RuleData :
          /\ call' = [fn |-> "TargetContext.from_dict",
                      dir_dict |-> [keys |-> keys,
                                    cost |-> IF "cost" \in keys THEN cost ELSE None,
                                    allowing |-> IF "allowing" \in keys THEN allowing
                                                 ELSE JsonList(<< >>),
                                    blocking |-> IF "blocking" \in keys THEN blocking
                                                 ELSE JsonList(<< >>)]]
          /\ ret' = TargetContext_from_dict(call'.dir_dict)
    /\ pc' = "returned"
    /\ UNCHANGED program_vars

\* terrain_costs.json: costs of the pairs of "flat" and "shallow" under
\* "terrestrial", every pair present or not, and inputs with an unknown name
TerrainCostInputs ==
    LET TargetCosts == UNION { [ts -> {10, 40}] : ts \in SUBSET {"flat", "shallow"} }
        CostData == UNION { [ss -> TargetCosts] : ss \in SUBSET {"flat", "shallow"} }
    IN
    { ("terrestrial" :> cd) : cd \in CostData }
    \cup { << >>,
           ("walking" :> ("flat" :> ("flat" :> 10))),
           ("terrestrial" :> ("lava" :> ("flat" :> 10))),
           ("terrestrial" :> ("flat" :> ("lava" :> 10))),
           ("terrestrial" :> ("flat" :> ("shallow" :> 40))
              @@ "amphibious" :> ("flat" :> ("shallow" :> 10))) }

\* CostTable.from_json_file(folder_path) with no features and no groups
CallCostTableTerrain ==
    /\ pc = "call"
    /\ \E tdict \in TerrainCostInputs :
          /\ call' = [fn |-> "CostTable.from_json_file", tdict |-> tdict,
                      fdict |-> << >>, glist |-> << >>]
          /\ ret' = CostTable_from_json_file(tdict, << >>, << >>)
    /\ pc' = "returned"
    /\ UNCHANGED program_vars

\* feature_costs.json: a cost for some of these names
FeatureCostInputs ==
    LET FeatureCost == ("rough" :> 5 @@ "loose" :> 7 @@ "empty" :> 3 @@ "mud" :> 1)
    IN { [n \in ns |-> FeatureCost[n]] : ns \in SUBSET DOMAIN FeatureCost }

\* feature_groups.json: at most MaxGroups of these groups
MaxGroups == 2

GroupLists ==
    LET FeatureGroups ==
            { << >>, << "rough" >>, << "rough", "loose" >>, << "loose", "rough" >>,
              << "rough", "rough" >>, << "empty", "rough" >>,
              << "rough", "rough", "loose" >>, << "swamp" >>, << "mud" >> }
    IN UNION { [1..n -> FeatureGroups] : n \in 0..MaxGroups }

\* CostTable.from_json_file(folder_path) with one terrain cost
CallCostTableFeatures ==
    /\ pc = "call"
    /\ \E fdict \in FeatureCostInputs : \E glist \in GroupLists :
          LET tdict == ("terrestrial" :> ("flat" :> ("flat" :> 10)))
          IN /\ call' = [fn |-> "CostTable.from_json_file", tdict |-> tdict,
                         fdict |-> fdict, glist |-> glist]
             /\ ret' = CostTable_from_json_file(tdict, fdict, glist)
    /\ pc' = "returned"
    /\ UNCHANGED program_vars

Pair(k, v) == [key |-> k, value |-> v]

\* configurations in the documented format, source terrain -> target terrain
\* -> direction -> rule, and some with an unknown name
ContextData ==
    LET \* the rule of a direction
        RuleObjects == { << Pair("cost", 10) >>, << Pair("cost", 14) >> }
        \* direction -> rule
        DirectionDicts ==
            { << >> }
            \cup { << Pair("N", r) >> : r \in RuleObjects }
            \cup { << Pair("N", r), Pair("NE", r) >> : r \in RuleObjects }
            \cup { << Pair("north", r) >> : r \in RuleObjects }
        \* target terrain -> direction -> rule
        TargetDicts ==
            { << >> }
            \cup { << Pair(t, d) >> : t \in {"flat", "shallow", "lava"},
                                      d \in DirectionDicts }
            \cup { << Pair("flat", d), Pair("shallow", e) >> : d, e \in DirectionDicts }
    IN { << >> }
       \cup { << Pair(s, t) >> : s \in {"flat", "lava"}, t \in TargetDicts }
       \cup { << Pair("shallow", t), Pair("flat", << >>) >> : t \in TargetDicts }

\* PathContext.from_dict(ctx_data)
CallPathContextFromDict ==
    /\ pc = "call"
    /\ \E ctx_data \in ContextData :
          /\ call' = [fn |-> "PathContext.from_dict", ctx_data |-> ctx_data]
          /\ ret' = PathContext_from_dict(ctx_data)
    /\ pc' = "returned"
    /\ UNCHANGED program_vars

\* contexts: a mask for FLAT and one for SHALLOW (every bit, no bit, or bit 0
\* alone, which FLAT = 5 has and SHALLOW = 4 has not), and a dict without SHALLOW
PathContexts ==
    LET ContextMasks == {TerrainFlags_ALL, TerrainFlags_EMPTY, {0}}
    IN
    { [t \in Terrain |-> IF t = "FLAT" THEN f ELSE IF t = "SHALLOW" THEN s
                         ELSE TerrainFlags_ALL] : f, s \in ContextMasks }
    \cup { [t \in {"FLAT"} |-> TerrainFlags_ALL] }

\* get_valid_neighbors(pathmap.nodes, NeighborMap(xdims, ydims), ctx), for the
\* maps without walls of flat and shallow tiles
CallGetValidNeighbors ==
    /\ pc = "call"
    /\ \E st \in CallSettings : \E ctx \in PathContexts :
       \E tiles \in [1..st.ydims -> [1..st.xdims -> {"F", "S"}]] :
          LET lm == from_json_file([tiles |-> tiles, walls |-> << >>], st)
          IN /\ call' = [fn |-> "get_valid_neighbors", st |-> st,
                         tiles |-> PathMap(lm, st).nodes,
                         neighbors |-> NeighborMap(st.xdims, st.ydims), ctx |-> ctx]
             /\ ret' = get_valid_neighbors(call'.tiles, call'.neighbors, ctx)
    /\ pc' = "returned"
    /\ UNCHANGED program_vars

\* TerrainFlags.from_terrain(t) and TerrainFlags.from_terrain(u)
CallFromTerrain ==
    /\ pc = "call"
    /\ \E t, u \in Terrain :
          /\ call' = [fn |-> "TerrainFlags.from_terrain", t |-> t, u |-> u]
          /\ ret' = Return(<< TerrainFlags_from_terrain(t), TerrainFlags_from_terrain(u) >>)
    /\ pc' = "returned"
    /\ UNCHANGED program_vars

\* Terrain.from_string(t.to_string().lower())
CallTerrainRoundTrip ==
    /\ pc = "call"
    /\ \E t \in Terrain :
          LET s == str_lower(Terrain_to_string(t))
              r == Terrain_from_string(s)
          IN /\ call' = [fn |-> "Terrain.from_string", t |-> t, s |-> s]
             /\ ret' = IF r = "ValueError" THEN Raise("ValueError") ELSE Return(r)
    /\ pc' = "returned"
    /\ UNCHANGED program_vars

\* Features.from_string(f.to_string().lower())
CallFeaturesRoundTrip ==
    /\ pc = "call"
    /\ \E f \in Features_members :
          LET s == str_lower(Features_to_string(f))
          IN /\ call' = [fn |-> "Features.from_string", f |-> f, s |-> s]
             /\ ret' = Features_from_string(s)
    /\ pc' = "returned"
    /\ UNCHANGED program_vars

NextCalls ==
    \/ CallNode
    \/ CallFromJsonFile
    \/ CallFromSymbol
    \/ CallMovementTypeFromString
    \/ CallMovementTypeRoundTrip
    \/ CallTargetContextFromDict
    \/ CallCostTableTerrain
    \/ CallCostTableFeatures
    \/ CallPathContextFromDict
    \/ CallGetValidNeighbors
    \/ CallFromTerrain
    \/ CallTerrainRoundTrip
    \/ CallFeaturesRoundTrip

SpecCalls == InitCalls /\ [][NextCalls]_vars

-----------------------------------------------------------------------------
(* Sequences of calls of LocationMap.insert *)

\* stored inserts of one run
MaxInserts == 3

\* the coordinates and the terrains inserted
InsertCoords == (0..1) \X (0..1)

InsertTerrains == {"FLAT", "HIGH_WALL_N", "HIGH_WALL_W"}

InitInserts ==
    /\ pc = "inserting"
    /\ settings = [xdims |-> 2, ydims |-> 2]
    /\ jdict = [tiles |-> << >>, walls |-> << >>]
    /\ location_map = LocationMap_init
    /\ pathmap = [nodes |-> << >>, xdims |-> 0, ydims |-> 0]
    /\ mvtype = "NONE"
    /\ IdleSearch
    /\ raised = {}
    /\ tid = 0
    /\ inner = << >>
    /\ call = NoCall
    /\ ret = NoReturn

\* location_map.insert(x, y, terrain)
Insert ==
    /\ pc = "inserting"
    /\ location_map.nid < MaxInserts
    /\ \E c \in InsertCoords : \E terrain \in InsertTerrains :
          /\ call' = [fn |-> "LocationMap.insert", x |-> c[1], y |-> c[2],
                      terrain |-> terrain]
          /\ location_map' = LocationMap_insert(location_map, c[1], c[2], terrain)
    /\ ret' = NoReturn
    /\ UNCHANGED << pc, settings, jdict, pathmap, mvtype, search_vars, raised, tid, inner >>

\* location_map.get_west_wall_id(x, y) and location_map.get_west_wall(x, y)
LookUpWestWall ==
    /\ pc = "inserting"
    /\ \E c \in InsertCoords :
          /\ call' = [fn |-> "LocationMap.get_west_wall_id", x |-> c[1], y |-> c[2]]
          /\ ret' = Return([id |-> get_west_wall_id(location_map, c[1], c[2]),
                            location |-> get_west_wall(location_map, c[1], c[2])])
    /\ pc' = "looked_up"
    /\ UNCHANGED << settings, jdict, location_map, pathmap, mvtype, search_vars, raised,
                    tid, inner >>

\* pathmap = PathMap(location_map, settings)
BuildInserted ==
    /\ pc = "inserting"
    /\ IF PathMap_raises(location_map)
       THEN /\ raised' = raised \cup {"PathMap"}
            /\ pc' = "raised"
            /\ UNCHANGED pathmap
       ELSE /\ pathmap' = PathMap(location_map, settings)
            /\ pc' = "built"
            /\ UNCHANGED raised
    /\ UNCHANGED << settings, jdict, location_map, mvtype, search_vars, tid, inner, call, ret >>

NextInserts ==
    \/ Insert
    \/ LookUpWestWall
    \/ BuildInserted

SpecInserts == InitInserts /\ [][NextInserts]_vars

-----------------------------------------------------------------------------

(* The graph of Node.edges(), for the statements about the searches *)

\* the ids in edges() of node n; an id that indexes no node has no edges
Succ(pm, n) ==
    IF node_in_range(pm, n) THEN SeqToSet(edges(PathMap_node(pm, n))) ELSE {}

RECURSIVE MinDistFrom(_, _, _, _, _)
\* the number of edges of a shortest path to t from a node of the level
\* `frontier`, which is at distance d of the source; None when there is none
MinDistFrom(pm, frontier, visited, t, d) ==
    IF t \in frontier THEN d
    ELSE IF frontier = {} THEN None
    ELSE LET nxt == (UNION {Succ(pm, n) : n \in frontier}) \ visited
         IN MinDistFrom(pm, nxt, visited \cup nxt, t, d + 1)

MinDist(pm, s, t) == MinDistFrom(pm, {s}, {s}, t, 0)

\* breadth_first_search_depth has returned (a depth or None) or raised
DepthCalled == pc \in {"depth_done", "bfs_path", "bfs_walk", "path_done", "done"}

DepthRaised == "breadth_first_search_depth" \in raised

\* breadth_first_search has returned (a path or None) or raised
PathCalled == pc \in {"path_done", "done"}

PathRaised == "breadth_first_search" \in raised

-----------------------------------------------------------------------------
(* Statements about the searches *)

\* C1: whenever tgt # src is reachable from src along edges(),
\* breadth_first_search_depth returns the minimum number of edges of a
\* src-to-tgt path.
C1_DepthIsMinimum ==
    (DepthCalled /\ src # tgt /\ MinDist(pathmap, src, tgt) # None)
        => (~DepthRaised /\ bfs = MinDist(pathmap, src, tgt))

NoRepeat(p) == \A i, j \in 1..Len(p) : i # j => p[i] # p[j]

\* C2: if breadth_first_search_depth returns a depth d, breadth_first_search
\* returns a list of d + 1 ids, from tgt to src, without repetition, each
\* element in the edges() of the element that follows it.
C2_DepthAndPathAgree ==
    (PathCalled /\ ~DepthRaised /\ bfs # None)
        => /\ ~PathRaised
           /\ bfs_p.some
           /\ Len(bfs_p.path) = bfs + 1
           /\ bfs_p.path[1] = tgt
           /\ Last(bfs_p.path) = src
           /\ NoRepeat(bfs_p.path)
           /\ \A i \in 1..(Len(bfs_p.path) - 1) :
                 bfs_p.path[i] \in Succ(pathmap, bfs_p.path[i + 1])

\* C3: for src = tgt = s, breadth_first_search_depth returns 0 and
\* breadth_first_search returns the list [s].
C3_TrivialQuery ==
    (PathCalled /\ src = tgt)
        => (bfs = 0 /\ bfs_p = SomePath(<< src >>) /\ raised = {})

\* C4: when no path leads from src to tgt, both searches return None and
\* neither raises.
C4_AbsenceIsAValue ==
    (PathCalled /\ MinDist(pathmap, src, tgt) = None)
        => (~DepthRaised /\ ~PathRaised /\ bfs = None /\ ~bfs_p.some)

\* C5: on the 8 x 6 map of FLAT tiles without walls,
\* breadth_first_search_depth(pathmap, 0, 47) returns 7.
C5_Depth0To47Is7 ==
    (pc \in {"depth_done", "bfs_path", "bfs_walk", "path_done"})
        => (bfs = 7 /\ src = 0 /\ tgt = 47 /\ ~DepthRaised)

C5_Witness ==
    /\ pc = "depth_done"
    /\ Len(pathmap.nodes) = 48
    /\ \A i \in 1..48 : pathmap.nodes[i].terrain = "FLAT"
    /\ src = 0 /\ tgt = 47 /\ bfs = 7
    /\ pops > 7

\* a search has been called on the built graph and has not yet returned, or
\* has just returned
SearchPcs == {"built", "depth_done", "bfs_depth", "bfs_path", "bfs_walk", "path_done"}

\* C6: no step of breadth_first_search_depth or breadth_first_search, the
\* returning one included, changes pathmap.nodes or a field of a Node.
C6_SearchLeavesGraphUnchanged ==
    [][(pc \in SearchPcs) => (pathmap' = pathmap)]_vars

C6_Witness ==
    /\ pc = "done"
    /\ pops >= 2
    /\ bfs_p.some
    /\ Len(bfs_p.path) >= 3
    /\ pathmap = PathMap(location_map, settings)

\* C7: whenever tgt is reachable from src, shortest_path returns a result
\* (a path with its cost), not None.
C7_ShortestPathReturnsAPath ==
    (pc = "done" /\ MinDist(pathmap, src, tgt) # None) => sp # None

-----------------------------------------------------------------------------
(* Statements about the grid topology *)

Dirs == {"NW", "N", "NE", "W", "E", "SW", "S", "SE"}

Dx(D) == IF D \in {"NW", "W", "SW"} THEN -1 ELSE IF D \in {"NE", "E", "SE"} THEN 1 ELSE 0

Dy(D) == IF D \in {"NW", "N", "NE"} THEN -1 ELSE IF D \in {"SW", "S", "SE"} THEN 1 ELSE 0

Opposite(D) ==
    CASE D = "NW" -> "SE" [] D = "N" -> "S" [] D = "NE" -> "SW" [] D = "W" -> "E"
      [] D = "E" -> "W" [] D = "SW" -> "NE" [] D = "S" -> "N" [] D = "SE" -> "NW"

\* the tile id at (x + dx, y + dy) when that is inside the grid, else None
GeometricNeighbor(t, xdims, ydims, D) ==
    LET nx == (t % xdims) + Dx(D)
        ny == (t \div xdims) + Dy(D)
    IN IF nx >= 0 /\ nx < xdims /\ ny >= 0 /\ ny < ydims THEN nx + ny * xdims ELSE None

\* C8: every slot of NeighborMap.neighbors(tid, xdims, ydims) is the id of the
\* tile at the offset of its direction when that is inside the grid, and None
\* otherwise, grids one tile wide or high included.
C8_BoundaryRule ==
    \A t \in DOMAIN inner : \A D \in Dirs :
        inner[t][D] = GeometricNeighbor(t, settings.xdims, settings.ydims, D)

\* C9: if tile B is the neighbour of tile A in direction D, A is the
\* neighbour of B in the opposite direction.
C9_GeometricSymmetry ==
    \A A \in DOMAIN inner : \A D \in Dirs :
        (inner[A][D] # None /\ inner[A][D] \in DOMAIN inner)
            => inner[inner[A][D]][Opposite(D)] = A

-----------------------------------------------------------------------------
(* Statements about walls *)

\* the node built for the tile at (x, y)
TileNode(x, y) == PathMap_node(pathmap, get_tile_id(location_map, x, y))

\* the map has a single wall, a north wall at (x, y) with y > 0
OnlyNorthWallAt(x, y) ==
    /\ DOMAIN jdict.walls = {<<x, y>>}
    /\ jdict.walls[<<x, y>>] = << "high_wall_n" >>
    /\ y > 0

\* C10: a north wall at (x, y) takes the tile (x, y - 1) out of the N slot of
\* tile (x, y) and the tile (x, y) out of the S slot of tile (x, y - 1), and
\* every other slot of every tile holds the tile it holds without the wall:
\* the tile at the offset of its direction, None outside the grid.
C10_NorthWallBlocksOnlyNS ==
    \A c \in GridCoords(settings) :
        (pc = "built" /\ OnlyNorthWallAt(c[1], c[2]))
            => /\ TileNode(c[1], c[2]).N # get_tile_id(location_map, c[1], c[2] - 1)
               /\ TileNode(c[1], c[2] - 1).S # get_tile_id(location_map, c[1], c[2])
               /\ \A t \in GridCoords(settings) : \A D \in Dirs :
                     (<<t, D>> \notin {<<c, "N">>, << <<c[1], c[2] - 1>>, "S">>})
                         => TileNode(t[1], t[2])[D] =
                                get_tile_id(location_map, t[1] + Dx(D), t[2] + Dy(D))

-----------------------------------------------------------------------------
(* Statements about diagonal moves *)

Diagonals == {"NW", "NE", "SW", "SE"}

HasNorthWall(lm, x, y) == Has(lm.walls_n, <<x, y>>)

HasWestWall(lm, x, y) == Has(lm.walls_w, <<x, y>>)

\* a wall clause of the legality table fails for the move from tile (x, y) in
\* the diagonal direction D
WallClauseViolated(lm, x, y, D) ==
    CASE D = "NW" -> \/ HasNorthWall(lm, x, y) \/ HasWestWall(lm, x, y)
                     \/ HasWestWall(lm, x, y - 1)
                     \/ HasNorthWall(lm, x - 1, y)
      [] D = "NE" -> \/ HasNorthWall(lm, x, y)
                     \/ HasWestWall(lm, x + 1, y - 1)
                     \/ HasNorthWall(lm, x + 1, y) \/ HasWestWall(lm, x + 1, y)
      [] D = "SW" -> \/ HasWestWall(lm, x, y)
                     \/ HasNorthWall(lm, x - 1, y + 1)
                     \/ HasNorthWall(lm, x, y + 1) \/ HasWestWall(lm, x, y + 1)
      [] D = "SE" -> \/ HasNorthWall(lm, x + 1, y + 1) \/ HasWestWall(lm, x + 1, y + 1)
                     \/ HasNorthWall(lm, x, y + 1)
                     \/ HasWestWall(lm, x + 1, y)

\* the node of the tile at (x, y), None outside the grid
TileNodeOrNone(x, y) ==
    IF <<x, y>> \in GridCoords(settings) THEN TileNode(x, y) ELSE None

\* has_valid_neighbor_<D> of the tile at (x, y) for the target in direction D
has_valid_neighbor(x, y, D, context) ==
    LET self == TileNode(x, y)
        target == TileNode(x + Dx(D), y + Dy(D))
        n == TileNodeOrNone(x, y - 1)
        s == TileNodeOrNone(x, y + 1)
        e == TileNodeOrNone(x + 1, y)
        w == TileNodeOrNone(x - 1, y)
    IN CASE D = "NW" -> has_valid_neighbor_nw(self, target, n, w, context)
         [] D = "NE" -> has_valid_neighbor_ne(self, target, n, e, context)
         [] D = "SW" -> has_valid_neighbor_sw(self, target, s, w, context)
         [] D = "SE" -> has_valid_neighbor_se(self, target, s, e, context)

\* a context with every terrain a valid target of every terrain, and one with none
Contexts == { [t \in Terrain |-> TerrainFlags_ALL], [t \in Terrain |-> TerrainFlags_EMPTY] }

\* C11: when a wall clause of the legality table fails for a diagonal
\* direction of a tile, has_valid_neighbor_nw/ne/sw/se returns False for it
\* and the diagonal slot of the tile's node in the built graph is None.
C11_NoCuttingCorners ==
    \A c \in GridCoords(settings) : \A D \in Diagonals :
        (/\ pc = "built"
         /\ <<c[1] + Dx(D), c[2] + Dy(D)>> \in GridCoords(settings)
         /\ WallClauseViolated(location_map, c[1], c[2], D))
            => /\ TileNode(c[1], c[2])[D] = None
               /\ \A context \in Contexts : ~has_valid_neighbor(c[1], c[2], D, context)

-----------------------------------------------------------------------------
(* Statements about the size and the indices of the PathMap *)

\* C12: the PathMap built from an accepted map of xdims x ydims tiles has
\* exactly xdims * ydims entries, and the entry at index x + y * xdims is the
\* node of the tile at (x, y).
C12_SizeAndIndexing ==
    (pc = "built")
        => /\ Len(pathmap.nodes) = settings.xdims * settings.ydims
           /\ \A c \in GridCoords(settings) :
                 /\ node_in_range(pathmap, c[1] + c[2] * settings.xdims)
                 /\ PathMap_node(pathmap, c[1] + c[2] * settings.xdims) =
                        Node_tile(c[1], c[2], get_tile(location_map, c[1], c[2]).terrain,
                                  "EMPTY", location_map)

-----------------------------------------------------------------------------
(* Statements about single calls *)

InvalidBaseTerrains == {"EMPTY", "UNDERGROUND", "UNDERWATER", "AIR"}

\* C13: constructing a Node, directly, by Node.tile, Node.north_wall or
\* Node.west_wall, or in PathMap construction, raises for the base terrains
\* EMPTY, UNDERGROUND, UNDERWATER and AIR and yields no node; for every other
\* terrain it succeeds, with above = AIR and below = UNDERWATER for DEEP and
\* UNDERGROUND otherwise.
C13_InvalidBaseTerrainRaises ==
    (pc = "returned" /\ call.fn \in NodeConstructors)
        => IF call.terrain \in InvalidBaseTerrains
           THEN ret = Raise("ValueError")
           ELSE /\ ret.raised = ""
                /\ \A n \in (IF call.fn = "PathMap" THEN SeqToSet(ret.value.nodes)
                                                     ELSE {ret.value}) :
                      /\ n.terrain = call.terrain
                      /\ n.above = "AIR"
                      /\ n.below = IF call.terrain = "DEEP" THEN "UNDERWATER"
                                                            ELSE "UNDERGROUND"

C13_Witness ==
    /\ pc = "returned"
    /\ call.fn = "Node.tile"
    /\ call.terrain = "AIR"
    /\ ret = Raise("ValueError")

\* the number of rows differs from ydims or the length of a row from xdims
DimensionMismatch(jd, st) ==
    \/ Len(jd.tiles) # st.ydims
    \/ \E y \in 1..Len(jd.tiles) : Len(jd.tiles[y]) # st.xdims

\* every symbol of the rows and every wall name is a known one
KnownNames(jd) ==
    /\ \A y \in 1..Len(jd.tiles) : \A x \in 1..Len(jd.tiles[y]) :
          jd.tiles[y][x] \in {"D", "S", "F", "L", "M", "H", "n", "w", "N", "W"}
    /\ \A c \in DOMAIN jd.walls : \A i \in 1..Len(jd.walls[c]) :
          jd.walls[c][i] \in {"high_wall_n", "high_wall_w", "low_wall_n", "low_wall_w"}

\* C14: LocationMap.from_json_file raises, and returns no LocationMap, whenever
\* the number of rows differs from settings.ydims or the length of a row from
\* settings.xdims; when all rows match (and every name is known) it returns a
\* LocationMap.
C14_DimensionMismatchRaises ==
    (pc = "returned" /\ call.fn = "from_json_file")
        => /\ DimensionMismatch(call.jd, call.st) => ret = Raise("ValueError")
           /\ (~DimensionMismatch(call.jd, call.st) /\ KnownNames(call.jd))
                 => /\ ret.raised = ""
                    /\ Len(ret.value.tiles.order) = call.st.xdims * call.st.ydims

C14_Witness ==
    /\ pc = "returned"
    /\ call.fn = "from_json_file"
    /\ call.st.ydims = 2
    /\ Len(call.jd.tiles) = 2
    /\ call.jd.tiles[1] = << "F", "F" >>
    /\ Len(call.jd.tiles[2]) # call.st.xdims
    /\ call.st.xdims = 2
    /\ KnownNames(call.jd)
    /\ ret = Raise("ValueError")

\* C15: Terrain.from_symbol raises for every string outside
\* {D, S, F, L, M, H, n, w, N, W}; for a symbol of that set it returns a
\* terrain that no other symbol of the set yields and that is none of EMPTY,
\* UNDERGROUND, UNDERWATER, AIR.
C15_FromSymbol ==
    (pc = "returned" /\ call.fn = "Terrain.from_symbol")
        => IF call.s \in SymbolVocabulary
           THEN /\ ret.raised = ""
                /\ ret.value \in Terrain \ InvalidBaseTerrains
                /\ \A other \in SymbolVocabulary \ {call.s} :
                      Terrain_from_symbol(other) # ret.value
           ELSE ret = Raise("ValueError")

C15_Witness ==
    /\ pc = "returned"
    /\ call.fn = "Terrain.from_symbol"
    /\ call.s = "d"
    /\ ret = Raise("ValueError")

\* the member a name denotes: TERRESTRIAL for "terrestrial", and so on in the
\* order of the enumeration
MemberNamed(s) ==
    CASE s = "terrestrial" -> 0
      [] s = "subterranean" -> 1
      [] s = "amphibious" -> 2
      [] s = "deep_amphibious" -> 3
      [] s = "aquatic" -> 4
      [] s = "aerial" -> 5

\* C16: MovementType.from_string maps each of the six names to the member of
\* that name and raises ValueError for every other string, and
\* from_string(lower(to_string(m))) = m for every member m.
C16_MovementTypeFromString ==
    /\ (pc = "returned" /\ call.fn = "MovementType.from_string")
          => IF call.s \in MovementTypeNames
             THEN /\ ret = Return(MemberNamed(call.s))
                  /\ str_lower(MovementType_to_string(ret.value)) = call.s
             ELSE ret = Raise("ValueError")
    /\ (pc = "returned" /\ call.fn = "MovementType.from_string(to_string().lower())")
          => ret = Return(call.m)

C16_Witness ==
    /\ pc = "returned"
    /\ call.fn = "MovementType.from_string(to_string().lower())"
    /\ call.m = 5
    /\ ret = Return(5)

\* the value of "allowing" or "blocking" is absent or is made of known
\* direction and terrain names
KnownRuleNames(keys, key, data) ==
    key \in keys =>
        \A rule \in (IF data.kind = "dict" THEN {data.at} ELSE SeqToSet(data.items)) :
            \A dir_str \in DOMAIN rule :
                /\ Direction_from_string(dir_str) # 0
                /\ \A i \in 1..Len(rule[dir_str]) :
                      Terrain_from_string(rule[dir_str][i]) # "ValueError"

\* the terrain lists given for direction d: of the object, or of the last
\* object of the list that names d
ListsFor(keys, key, data, d) ==
    IF key \notin keys THEN << >>
    ELSE IF data.kind = "dict"
    THEN IF \E dir_str \in DOMAIN data.at : Direction_from_string(dir_str) = d
         THEN data.at[CHOOSE dir_str \in DOMAIN data.at : Direction_from_string(dir_str) = d]
         ELSE << >>
    ELSE LET named == {i \in 1..Len(data.items) :
                          \E dir_str \in DOMAIN data.items[i] :
                              Direction_from_string(dir_str) = d}
             last == CHOOSE i \in named : \A j \in named : j <= i
         IN IF named = {} THEN << >>
            ELSE data.items[last][CHOOSE dir_str \in DOMAIN data.items[last] :
                                      Direction_from_string(dir_str) = d]

\* the mask in force for direction d: the parsed one, else the default
EffectiveMask(masks, d, default) == IF d \in DOMAIN masks THEN masks[d] ELSE default

\* C17: TargetContext.from_dict does not fail on a rule with a cost whose
\* allowing or blocking data are absent (no entry at all, none for a
\* direction, or an empty terrain list); the allowing mask of a direction
\* without allowing terrains is then TerrainFlags.ALL and the blocking mask of
\* a direction without blocking terrains is empty.
C17_AllowingBlockingDefaults ==
    (/\ pc = "returned"
     /\ call.fn = "TargetContext.from_dict"
     /\ "cost" \in call.dir_dict.keys
     /\ KnownRuleNames(call.dir_dict.keys, "allowing", call.dir_dict.allowing)
     /\ KnownRuleNames(call.dir_dict.keys, "blocking", call.dir_dict.blocking))
        => /\ ret.raised = ""
           /\ \A d \in Direction :
                 /\ ListsFor(call.dir_dict.keys, "allowing", call.dir_dict.allowing, d) = << >>
                       => EffectiveMask(ret.value.allowing, d, TerrainFlags_ALL)
                              = TerrainFlags_ALL
                 /\ ListsFor(call.dir_dict.keys, "blocking", call.dir_dict.blocking, d) = << >>
                       => EffectiveMask(ret.value.blocking, d, TerrainFlags_EMPTY)
                              = TerrainFlags_EMPTY

\* C18: after CostTable.from_json_file, the table of movement type m holds,
\* under the key (src, tgt), the cost c that terrain_costs.json lists for m
\* under source terrain src and target terrain tgt, asymmetric costs included.
C18_TerrainPairCost ==
    (pc = "returned" /\ call.fn = "CostTable.from_json_file" /\ ret.raised = "")
        => \A mv \in DOMAIN call.tdict : \A s \in DOMAIN call.tdict[mv] :
           \A t \in DOMAIN call.tdict[mv][s] :
              LET table == ret.value.by_terrain[MovementType_from_string(mv).value]
                  key == << Terrain_from_string(s), Terrain_from_string(t) >>
              IN /\ key \in DOMAIN table
                 /\ table[key] = call.tdict[mv][s][t]

RECURSIVE SumCosts(_, _)
\* the sum of the configured costs of the single features of a mask
SumCosts(mask, fdict) ==
    IF mask = {} THEN 0
    ELSE LET bit == CHOOSE b \in mask : TRUE
             name == CHOOSE n \in DOMAIN fdict : Features_from_string(n).value = {bit}
         IN fdict[name] + SumCosts(mask \ {bit}, fdict)

\* the bitwise OR of the features of a group
GroupMask(group) == UNION {Features_from_string(group[i]).value : i \in 1..Len(group)}

\* C19: after CostTable.from_json_file, the feature-cost table holds under the
\* OR of the features of every declared group the sum of the configured costs
\* of the distinct features of that mask; an empty group adds no entry, and the
\* costs of the single features are as configured.
C19_FeatureGroupCost ==
    (pc = "returned" /\ call.fn = "CostTable.from_json_file" /\ ret.raised = "")
        => LET table == ret.value.by_feature
               masks == {GroupMask(call.glist[i]) : i \in 1..Len(call.glist)} \ {{}}
               singles == {Features_from_string(n).value : n \in DOMAIN call.fdict}
           IN /\ \A mask \in masks :
                    /\ mask \in DOMAIN table
                    /\ table[mask] = SumCosts(mask, call.fdict)
              /\ DOMAIN table = singles \cup masks
              /\ \A n \in DOMAIN call.fdict :
                    table[Features_from_string(n).value] = call.fdict[n]

-----------------------------------------------------------------------------
(* Statements about obstructions *)

\* the graph of the same rows without walls
UnobstructedPathMap ==
    PathMap(from_json_file([tiles |-> jdict.tiles, walls |-> << >>], settings), settings)

\* the coordinates of the tile of node id n of the graph under search
IsTileId(n) == \E c \in GridCoords(settings) : get_tile_id(location_map, c[1], c[2]) = n

TileCoordsOf(n) ==
    CHOOSE c \in GridCoords(settings) : get_tile_id(location_map, c[1], c[2]) = n

\* without walls the tile at (x, y) is node x + y * xdims
UnobstructedId(c) == c[1] + c[2] * settings.xdims

UnobstructedCoords(n) == << n % settings.xdims, n \div settings.xdims >>

\* the edge between the tiles at a and b carries a wall: a north wall of the
\* lower tile or a west wall of the right-hand tile
WalledEdge(a, b) ==
    \/ HasNorthWall(location_map, a[1], a[2]) /\ b = << a[1], a[2] - 1 >>
    \/ HasNorthWall(location_map, b[1], b[2]) /\ a = << b[1], b[2] - 1 >>
    \/ HasWestWall(location_map, a[1], a[2]) /\ b = << a[1] - 1, a[2] >>
    \/ HasWestWall(location_map, b[1], b[2]) /\ a = << b[1] - 1, a[2] >>

\* the edges of node n of the unobstructed graph, without the walled ones
\* when `avoid`
UnobstructedSucc(n, avoid) ==
    {m \in Succ(UnobstructedPathMap, n) :
        avoid => ~WalledEdge(UnobstructedCoords(n), UnobstructedCoords(m))}

RECURSIVE UnobstructedDistFrom(_, _, _, _, _)
UnobstructedDistFrom(frontier, visited, t, d, avoid) ==
    IF t \in frontier THEN d
    ELSE IF frontier = {} THEN None
    ELSE LET nxt == (UNION {UnobstructedSucc(n, avoid) : n \in frontier}) \ visited
         IN UnobstructedDistFrom(nxt, visited \cup nxt, t, d + 1, avoid)

\* the depth between the tiles at a and b on the unobstructed grid; with
\* `avoid`, along paths that cross no walled edge
UnobstructedDepth(a, b, avoid) ==
    UnobstructedDistFrom({UnobstructedId(a)}, {UnobstructedId(a)}, UnobstructedId(b), 0, avoid)

\* C20: between two tiles, breadth_first_search_depth on the grid with walls
\* never returns less than on the same grid without walls; it returns the same
\* depth when a shortest path of the unobstructed grid crosses no walled edge,
\* and a greater depth or None when every shortest path crossed one.
C20_ObstructionScenario ==
    (DepthCalled /\ src # tgt /\ IsTileId(src) /\ IsTileId(tgt))
        => LET a == TileCoordsOf(src)
               b == TileCoordsOf(tgt)
               open == UnobstructedDepth(a, b, FALSE)
               around == UnobstructedDepth(a, b, TRUE)
           IN /\ bfs # None => (open # None /\ bfs >= open)
              /\ (open # None /\ around = open) => (~DepthRaised /\ bfs = open)
              /\ (open # None /\ around # open)
                    => (~DepthRaised /\ (bfs = None \/ bfs > open))

-----------------------------------------------------------------------------
(* Statements about PathContext.from_dict *)

\* the configuration has the documented format: terrain names, then terrain
\* names, then direction names, then a rule with a cost
Documented(ctx_data) ==
    \A k \in 1..Len(ctx_data) :
        /\ ctx_data[k].key \in Terrain_names
        /\ \A j \in 1..Len(ctx_data[k].value) :
              /\ ctx_data[k].value[j].key \in Terrain_names
              /\ \A i \in 1..Len(ctx_data[k].value[j].value) :
                    /\ Direction_from_string(ctx_data[k].value[j].value[i].key) # 0
                    /\ "cost" \in JsonKeys(ctx_data[k].value[j].value[i].value)

\* the (source, target, direction) triples present in the configuration
TriplesOf(ctx_data) ==
    { << Terrain_from_string(ctx_data[k].key),
         Terrain_from_string(ctx_data[k].value[j].key),
         Direction_from_string(ctx_data[k].value[j].value[i].key) >> :
      << k, j, i >> \in
         { t \in (1..Len(ctx_data)) \X (1..2) \X (1..2) :
              /\ t[2] <= Len(ctx_data[t[1]].value)
              /\ t[3] <= Len(ctx_data[t[1]].value[t[2]].value) } }

\* C21: PathContext.from_dict, given a configuration in the documented format,
\* returns without raising a PathContext whose keys are exactly the (source
\* terrain, target terrain, direction) triples present in the configuration.
C21_PathContextFromDict ==
    (pc = "returned" /\ call.fn = "PathContext.from_dict" /\ Documented(call.ctx_data))
        => /\ ret.raised = ""
           /\ DOMAIN ret.value = TriplesOf(call.ctx_data)

-----------------------------------------------------------------------------
(* Statements about get_valid_neighbors *)

\* the call was made with a context that has a mask for every terrain
ValidNeighborsCalled ==
    /\ pc = "returned"
    /\ call.fn = "get_valid_neighbors"
    /\ DOMAIN call.ctx = Terrain

\* the result only removes edges of the NeighborMap, and keeps an edge only
\* if the mask of the source terrain meets the target terrain
OnlyRemovesEdges ==
    \A t \in DOMAIN ret.value : \A D \in Dirs :
        \/ ret.value[t][D] = None
        \/ /\ ret.value[t][D] = call.neighbors[t][D]
           /\ BitAnd(call.ctx[call.tiles[t + 1].terrain],
                     Bits(Terrain_value(call.tiles[ret.value[t][D] + 1].terrain))) # {}

\* C22: get_valid_neighbors only removes edges: every slot of its result is
\* None or the geometric neighbour of the NeighborMap, and is not None only if
\* ctx[source.terrain] & target.terrain != 0; the result has one entry per
\* input tile; the input tiles and the NeighborMap are not modified.
C22_OnlyRemovesEdges ==
    ValidNeighborsCalled
        => /\ ret.raised = ""
           /\ DOMAIN ret.value = 0..(Len(call.tiles) - 1)
           /\ OnlyRemovesEdges
           /\ ret.tiles = call.tiles
           /\ ret.neighbors = call.neighbors

-----------------------------------------------------------------------------
(* Statements about TerrainFlags *)

\* the mask 2^n, for n >= 0
SingleBit(n) == {n}

\* C23: TerrainFlags.from_terrain maps EMPTY to 0 and every other Terrain t to
\* the single-bit flag 2^(t-1); distinct terrains map to distinct flags, the
\* flags of two different terrains never intersect, and every flag but that
\* of EMPTY intersects TerrainFlags.ALL.
C23_FromTerrain ==
    (pc = "returned" /\ call.fn = "TerrainFlags.from_terrain")
        => LET f == ret.value[1]
               g == ret.value[2]
           IN /\ ret.raised = ""
              /\ call.t = "EMPTY" => f = {}
              /\ call.t # "EMPTY" => f = SingleBit(Terrain_value(call.t) - 1)
              /\ call.t # call.u => f # g /\ BitAnd(f, g) = {}
              /\ call.t # "EMPTY" => BitAnd(f, TerrainFlags_ALL) # {}

C23_Witness ==
    /\ pc = "returned"
    /\ call.fn = "TerrainFlags.from_terrain"
    /\ call.t = "FLAT"
    /\ call.u = "AIR"
    /\ ret.value = << {4}, {12} >>

-----------------------------------------------------------------------------
(* Statements about LocationMap.insert *)

\* the locations stored in the three dicts, tagged by dict and coordinates
StoredLocations(lm) ==
    { << "tile", c, lm.tiles.at[c].nid >> : c \in DOMAIN lm.tiles.at }
    \cup { << "north", c, lm.walls_n[c].nid >> : c \in DOMAIN lm.walls_n }
    \cup { << "west", c, lm.walls_w[c].nid >> : c \in DOMAIN lm.walls_w }

\* the insert of the step is a north wall at y = 0 or a west wall at x = 0
RejectedEdgeWall(c) ==
    \/ is_north_wall(c.terrain) /\ c.y = 0
    \/ is_west_wall(c.terrain) /\ c.x = 0

\* no wall on the top row or the left column; distinct ids below the counter
InsertInvariant(lm) ==
    /\ \A c \in DOMAIN lm.walls_n : c[2] # 0
    /\ \A c \in DOMAIN lm.walls_w : c[1] # 0
    /\ \A a, b \in StoredLocations(lm) : a # b => a[3] # b[3]
    /\ \A a \in StoredLocations(lm) : a[3] >= 0 /\ a[3] < lm.nid

\* C24: after any sequence of LocationMap.insert calls no north wall is stored
\* with y = 0 and no west wall with x = 0; the counter nid advances by one for
\* each insert that stores a node and by zero for a rejected edge wall; all
\* stored locations carry pairwise distinct nids smaller than the counter.
C24_InsertInvariant ==
    [][ (pc = "inserting" /\ pc' = "inserting")
        => /\ InsertInvariant(location_map')
           /\ (RejectedEdgeWall(call')
               => location_map' = location_map)
           /\ (~RejectedEdgeWall(call')
               => /\ location_map'.nid = location_map.nid + 1
                  /\ << IF is_north_wall(call'.terrain) THEN "north"
                        ELSE IF is_west_wall(call'.terrain) THEN "west" ELSE "tile",
                        << call'.x, call'.y >>, location_map.nid >>
                        \in StoredLocations(location_map')) ]_vars

C24_Witness ==
    /\ pc = "inserting"
    /\ location_map.nid = 3
    /\ DOMAIN location_map.walls_n = {<<0, 1>>}
    /\ DOMAIN location_map.walls_w = {<<1, 1>>}
    /\ location_map.walls_w[<<1, 1>>].nid = 2
    /\ call.terrain = "HIGH_WALL_W"

-----------------------------------------------------------------------------
(* Statements about the look-up of west walls *)

\* C25: LocationMap.get_west_wall_id(x, y) returns the node id of the west
\* wall stored at (x, y) and None when no west wall is stored there, whether
\* or not a north wall is stored at (x, y); it agrees with get_west_wall(x, y).
C25_WestWallId ==
    (pc = "looked_up" /\ call.fn = "LocationMap.get_west_wall_id")
        => /\ ret.value.id = IF Has(location_map.walls_w, << call.x, call.y >>)
                             THEN location_map.walls_w[<< call.x, call.y >>].nid
                             ELSE None
           /\ ret.value.id = ret.value.location.nid

-----------------------------------------------------------------------------
(* Statements about node 0 *)

\* the ids held in the given slots of the node, None left out
SlotIds(n, slots) == {n[D] : D \in slots} \ {None}

\* C26: tile id 0 is an ordinary node: edges(), edges_cardinal() and
\* edges_diagonal() return every slot that is not None, 0 included, and in a
\* grid without walls breadth_first_search_depth finds tile 0 from every
\* other tile.
C26_NodeZeroIsOrdinary ==
    /\ \A i \in 1..Len(pathmap.nodes) :
          /\ SeqToSet(edges(pathmap.nodes[i])) = SlotIds(pathmap.nodes[i], Dirs)
          /\ SeqToSet(edges_cardinal(pathmap.nodes[i]))
                = SlotIds(pathmap.nodes[i], {"N", "W", "E", "S"})
          /\ SeqToSet(edges_diagonal(pathmap.nodes[i]))
                = SlotIds(pathmap.nodes[i], Diagonals)
    /\ (DepthCalled /\ jdict.walls = << >> /\ tgt = 0)
          => (~DepthRaised /\ bfs # None)

-----------------------------------------------------------------------------
(* Statements about node ids as indices of the PathMap *)

\* the node PathMap.__init__ is meant to build for a stored location
NodeBuiltFor(lm, kind, c) ==
    CASE kind = "tile" ->
            Node_tile(c[1], c[2], lm.tiles.at[c].terrain, "EMPTY", lm)
      [] kind = "north" ->
            Node_north_wall(c[1], c[2], lm.walls_n[c].terrain, "EMPTY", lm)
      [] kind = "west" ->
            Node_west_wall(c[1], c[2], lm.walls_w[c].terrain, "EMPTY", lm)

\* C27: for every LocationMap built by a sequence of inserts and every
\* location stored in it with node id i, PathMap.node(i) exists and is the
\* node built for that location: same coordinates, same kind (tile, north
\* wall, west wall), same terrain.
C27_IdsIndexThePathMap ==
    (pc = "built" /\ call.fn = "LocationMap.insert")
        => \A a \in StoredLocations(location_map) :
              /\ node_in_range(pathmap, a[3])
              /\ PathMap_node(pathmap, a[3]) = NodeBuiltFor(location_map, a[1], a[2])

-----------------------------------------------------------------------------
(* Statements about the neighbours of wall nodes *)

\* the slots of the node other than the two given are None
OtherSlotsAbsent(n, a, b) == \A D \in Dirs \ {a, b} : n[D] = None

\* C28: a wall node links exactly the two tiles that share the walled edge: a
\* north-wall node at (x, y) has N = tile (x, y-1) and S = tile (x, y), a
\* west-wall node at (x, y) has W = tile (x-1, y) and E = tile (x, y), and all
\* its other slots are absent (walls are stored for y > 0, respectively x > 0).
C28_WallNodesLinkSharedEdge ==
    (pc = "returned" /\ ret.raised = ""
        /\ \/ call.fn = "Node.north_wall" /\ call.y > 0
           \/ call.fn = "Node.west_wall" /\ call.x > 0)
        => IF call.fn = "Node.north_wall"
           THEN /\ ret.value.N = get_tile_id(location_map, call.x, call.y - 1)
                /\ ret.value.S = get_tile_id(location_map, call.x, call.y)
                /\ OtherSlotsAbsent(ret.value, "N", "S")
           ELSE /\ ret.value.W = get_tile_id(location_map, call.x - 1, call.y)
                /\ ret.value.E = get_tile_id(location_map, call.x, call.y)
                /\ OtherSlotsAbsent(ret.value, "W", "E")

-----------------------------------------------------------------------------
(* Statements about the conversions to and from strings *)

\* C29: string conversion round-trips: Terrain.from_string(lower(t.to_string()))
\* is t for every Terrain member t, Features.from_string(lower(f.to_string()))
\* is f for EMPTY and every single flag f of Features, and to_string is
\* injective on each enumeration.
C29_StringRoundTrip ==
    /\ (pc = "returned" /\ call.fn = "Terrain.from_string")
          => /\ ret = Return(call.t)
             /\ \A u \in Terrain :
                   u # call.t => Terrain_to_string(u) # Terrain_to_string(call.t)
    /\ (pc = "returned" /\ call.fn = "Features.from_string")
          => /\ ret = Return(call.f)
             /\ \A g \in Features_members :
                   g # call.f => Features_to_string(g) # Features_to_string(call.f)

-----------------------------------------------------------------------------
(* Statements about termination *)

\* C30: the searches always terminate: on any PathMap and any src and tgt,
\* breadth_first_search_depth and breadth_first_search finish (return or
\* raise) after finitely many steps.
C30_BfsTerminates ==
    /\ (pc = "bfs_depth") ~> (pc = "depth_done")
    /\ (pc \in {"bfs_path", "bfs_walk"}) ~> (pc = "path_done")

=============================================================================
